---- MODULE Spec2Model ----
(***************************************************************************)
(* Model of the toqan-ai-bridge large-request orchestrator                 *)
(* (SmartRequestHandler), its completion poller and the upload service's   *)
(* retry loop.  One request is followed from the call of                   *)
(* handleLargeRequest to its result or its error.  Every action is the     *)
(* code that runs between two awaits of the TypeScript source; the backend *)
(* (createConversation, continueConversation, getAnswer, uploadFile) is    *)
(* the environment and answers nondeterministically.  The upload service   *)
(* (UploadSpec) and the segmenter with the token estimator (SegmenterSpec) *)
(* are also followed on their own, over all their options, and so are      *)
(* strategy selection (SelectionSpec), several calls on one handler        *)
(* (ConcurrentSpec), the completion routes (RouteSpec), the creation of a  *)
(* session's conversation by concurrent requests (SessionSpec) and the     *)
(* ProgressStreamManager (ManagerSpec).  LiveSpec is the request under     *)
(* fair scheduling.                                                        *)
(***************************************************************************)
EXTENDS Integers, Sequences, FiniteSets, TLC

(***************************************************************************)
(* Bounds of the model.                                                    *)
(***************************************************************************)
\* largest number of segments the segmenter produces for one text
MaxChunks == 2
\* options.maxPollAttempts of the request (the program default is 240)
MaxPollAttempts == 2
\* largest maxRetries a FileUploadService is configured with
MaxUploadRetries == 6
\* longest text handed to the segmenter, in characters, when every text
\* of the alphabet is tried
MaxTextLen == 5
\* most pieces (words, sentences, paragraph breaks) of a composed text
MaxPieces == 5
\* largest maxTokensPerChunk a ChunkingService is configured with
MaxCeiling == 3
\* polls of a route before its deadline has passed at the latest
MaxRoutePolls == 3
\* number of handleLargeRequest calls in flight on one handler
NumCalls == 2
\* largest token estimate classified by strategy selection
MaxEstimate == 1000000
\* number of small-message requests in flight for one session id
NumRequests == 2
\* calls made on one ProgressStreamManager
MaxManagerCalls == 4
\* largest bufferSize a ProgressStreamManager is configured with
MaxBufferSize == 2

(***************************************************************************)
(* Program constants.                                                      *)
(***************************************************************************)
DirectLimit == 115000
ChunkLimit == 200000
FileLimit == 500000
DefaultMaxRetries == 3
DefaultMaxTokensPerChunk == 115000
DefaultOverlapTokens == 1000
BackoffBase == 1000
BackoffCap == 10000
DefaultUpdateInterval == 1000

(***************************************************************************)
(* Inputs.  A message is known by its length in characters, its token      *)
(* estimate (smartEstimateTokens(message)) and the offsets of its first    *)
(* and last non-whitespace characters (0: it has none), from which         *)
(* trim(), substring() and the hybrid split are computed.                  *)
(***************************************************************************)
Msg(l, t, f, e) == [len |-> l, tokens |-> t, firstInk |-> f, lastInk |-> e]

Messages ==
  { Msg(0, 0, 0, 0),                         \* ""
    Msg(4, 1, 0, 0),                         \* whitespace only
    Msg(2000, 500, 1, 2000),                 \* direct range
    Msg(600000, 150000, 1, 600000),          \* chunked range
    Msg(1000000, 250000, 1, 1000000),        \* file range
    Msg(2400000, 600000, 1, 2400000),        \* hybrid range
    Msg(2400000, 630000, 1, 700000),         \* hybrid range, blank tail
    Msg(2400000, 630000, 800000, 2400000) }  \* hybrid range, blank head

\* values of options.strategy; "bogus" stands for any string outside the union
StrategyOptions == {"auto", "direct", "chunks", "file", "hybrid", "bogus"}

\* backend answers: status and answer text of a get_answer response
Statuses == {"processing", "finished", "done"}
AnswerTexts == {"", "X", "YYYYY"}
Responses == [status : Statuses, answer : AnswerTexts]

\* smartEstimateTokens of the answer texts: ceil(len/4) * 0.85, at least 1
AnswerTokens(a) == CASE a = "" -> 0 [] a = "X" -> 1 [] a = "YYYYY" -> 2

NoError == [kind |-> "none", attempts |-> 0, wraps |-> <<>>]
Err(k, n) == [kind |-> k, attempts |-> n, wraps |-> <<>>]
Wrap(e, prefix) == [e EXCEPT !.wraps = <<prefix>> \o @]

Undefined == -1

\* a SmartRequestResult; set is FALSE while nothing has been returned
NoResult == [set |-> FALSE, conversationId |-> 0, requestId |-> 0,
             strategy |-> "none", answer |-> "", totalInputTokens |-> 0,
             totalResponseTokens |-> 0, chunksProcessed |-> Undefined,
             fileId |-> Undefined, processingSteps |-> <<>>]

VARIABLES
  msg,          \* the message passed to handleLargeRequest
  optStrategy,  \* mergedOptions.strategy
  nSeg,         \* number of segments chunkText yields for a non-blank text
  pc,           \* the await the request is suspended at
  strategy,     \* local `strategy` of handleLargeRequest
  steps,        \* processingSteps
  trace,        \* backend calls made so far, polls as one event each
  poll,         \* locals of the running (or last) pollForAnswer
  upl,          \* locals of uploadTextAsFile / uploadWithRetry
  loc,          \* locals of the strategy handler
  result,       \* value handleLargeRequest resolved with
  error,        \* error handleLargeRequest rejected with
  backend,      \* id counters of the backend
  progress,     \* mergedOptions.progressCallback and the events it received
  svc,          \* a FileUploadService instance and its uploadTextAsFile call
  seg,          \* a ChunkingService instance and its splitText call
  sel,          \* two estimates and the strategies recommended for them
  conc,         \* calls of handleLargeRequest running on one handler
  route,        \* one request to /v1/complete or /v1/complete/stream
  sess,         \* redis, the backend and the requests of one session id
  psm           \* a ProgressStreamManager, its stream and the clock

vars == <<msg, optStrategy, nSeg, pc, strategy, steps, trace, poll, upl, loc,
          result, error, backend, progress, svc, seg, sel, conc,
          route, sess, psm>>
inputs == <<msg, optStrategy, nSeg>>
\* the state of the components that are also followed on their own
standalone == <<svc, seg, sel, conc, route, sess, psm>>

(***************************************************************************)
(* Pure functions of the source.                                           *)
(***************************************************************************)
\* variant: the first threshold is exclusive
getRecommendedStrategy_Exclusive(tokens) ==
  IF tokens < DirectLimit THEN "direct"
  ELSE IF tokens <= ChunkLimit THEN "chunks"
  ELSE IF tokens <= FileLimit THEN "file"
  ELSE "hybrid"

\* tokenEstimation.getRecommendedStrategy, on the estimate
getRecommendedStrategy(tokens) ==
  IF tokens <= DirectLimit THEN "direct"
  ELSE IF tokens <= ChunkLimit THEN "chunks"
  ELSE IF tokens <= FileLimit THEN "file"
  ELSE "hybrid"

\* String.prototype.trim() leaves nothing
IsBlank(m) == m.firstInk = 0

\* floor(a * b / c) for b = 400 * 500 without leaving 32 bits
MulDiv200000(a, c) ==
  LET q1 == (a * 400) \div c
      r1 == (a * 400) % c
  IN  q1 * 500 + (r1 * 500) \div c

\* handleHybridRequest: Math.floor(message.length * (200000 / tokens)),
\* computed exactly (the double-precision product can differ by one
\* character at an exact quotient); tokens = 0 gives 0 * Infinity = NaN and
\* substring treats NaN as 0
splitPoint(m) ==
  IF m.tokens = 0 THEN 0 ELSE MulDiv200000(m.len, m.tokens)

Min(a, b) == IF a < b THEN a ELSE b

\* message.substring(0, splitPoint): blank when no ink lies before the cut
fileContentBlank(m) ==
  LET cut == Min(splitPoint(m), m.len)
  IN  m.firstInk = 0 \/ m.firstInk > cut

\* message.substring(splitPoint).trim() is empty
remainingBlank(m) ==
  LET cut == Min(splitPoint(m), m.len)
  IN  m.lastInk <= cut

\* ChunkingService.splitText: metadata of the segments of a text
chunkText(blank, n) ==
  IF blank THEN <<>>
  ELSE [k \in 1..n |-> [index |-> k - 1, totalChunks |-> n,
                        isFirst |-> (k - 1 = 0), isLast |-> (k - 1 = n - 1)]]

\* what a message sent to the backend is made of
Sent(kind, index, total, marker) ==
  [kind |-> kind, index |-> index, total |-> total, marker |-> marker]

\* SmartRequestHandler.formatChunkMessage
formatChunkMessage(chunk) ==
  IF chunk.isFirst /\ chunk.isLast
    THEN Sent("chunk", chunk.index, chunk.totalChunks, "none")
  ELSE IF chunk.isFirst
    THEN Sent("chunk", chunk.index, chunk.totalChunks, "first")
  ELSE IF chunk.isLast
    THEN Sent("chunk", chunk.index, chunk.totalChunks, "last")
  ELSE Sent("chunk", chunk.index, chunk.totalChunks, "middle")

\* SmartRequestHandler.addProcessingStep
addProcessingStep(s, name, ok, e) ==
  Append(s, [step |-> name, success |-> ok, error |-> e])

\* pollForAnswer: the success test on a get_answer response
pollSucceeded(r) == r.status = "finished" /\ r.answer # ""

\* pollForAnswer: return answerResponse.answer
pollReturn(r) == r.answer

\* variant: every poll gets the file budget
pollBudget_AlwaysDouble(isFileProcessing) == MaxPollAttempts * 2

\* pollForAnswer: const maxAttempts
pollBudget(isFileProcessing) ==
  IF isFileProcessing THEN MaxPollAttempts * 2 ELSE MaxPollAttempts

\* variant: while (attempts <= maxAttempts)
pollLoopRuns_OffByOne(attempts, maxAttempts) == attempts <= maxAttempts

\* pollForAnswer: while (attempts < maxAttempts)
pollLoopRuns(attempts, maxAttempts) == attempts < maxAttempts

\* variant: the catch branch never rethrows
pollRethrows_Never(attempts, maxAttempts) == FALSE

\* pollForAnswer: catch branch, if (attempts >= maxAttempts - 1) throw error
pollRethrows(attempts, maxAttempts) == attempts >= maxAttempts - 1

\* variant: the delay doubles without a cap
backoffDelay_NoCap(attempt) == BackoffBase * (2 ^ (attempt - 1))

\* uploadWithRetry: Math.min(1000 * Math.pow(2, attempt - 1), 10000)
backoffDelay(attempt) == Min(BackoffBase * (2 ^ (attempt - 1)), BackoffCap)

\* variant: the loop stops one attempt early
uploadLoopRuns_OffByOne(attempt, maxRetries) == attempt < maxRetries

\* variant: the loop makes one attempt beyond maxRetries
uploadLoopRuns_OneMore(attempt, maxRetries) == attempt <= maxRetries + 1

\* uploadWithRetry: for (...; attempt <= maxRetries; ...)
uploadLoopRuns(attempt, maxRetries) == attempt <= maxRetries

\* uploadWithRetry: if (attempt < maxRetries) wait before the next attempt
uploadBacksOff(attempt, maxRetries) == attempt < maxRetries

(***************************************************************************)
(* The catch blocks.  catchStep is the failed step the strategy            *)
(* handler's own catch appends ("" when the throw is not inside one);      *)
(* handleLargeRequest's catch appends 'Error' and rejects.                 *)
(***************************************************************************)
\* variant: the catch block swallows the error and returns what it has
Reject_Swallow(s, catchStep, e) ==
  /\ steps' = addProcessingStep(s, "Error", FALSE, e)
  /\ result' = [NoResult EXCEPT !.set = TRUE]
  /\ pc' = "done"
  /\ UNCHANGED error

Reject(s, catchStep, e) ==
  /\ steps' = addProcessingStep(
                IF catchStep = "" THEN s
                ELSE addProcessingStep(s, catchStep, FALSE, e),
                "Error", FALSE, e)
  /\ error' = Wrap(e, "Smart request handling failed")
  /\ pc' = "failed"
  /\ UNCHANGED result

\* the value handleLargeRequest rejects with: new Error(`Smart request
\* handling failed: ${message}`), an object whose only datum is the message
thrownError(e) == [message |-> e]

\* POST /v1/complete, catch: the body of the 502 reply built from the error
errorResponse(e) ==
  [error |-> "processing_failed", message |-> thrownError(e).message,
   strategy_used |-> "smart_handling"]

\* handleLargeRequest: the fields set on the handler's result before return
Resolve(s, r) ==
  /\ steps' = s
  /\ result' = [r EXCEPT !.set = TRUE, !.totalInputTokens = msg.tokens,
                          !.processingSteps = s]
  /\ pc' = "done"
  /\ UNCHANGED error

NoPoll == [ctx |-> "none", conv |-> 0, req |-> 0, isFile |-> FALSE,
           attempts |-> 0, maxAttempts |-> 0, calls |-> 0, notFinished |-> 0,
           errors |-> 0, state |-> "none",
           resp |-> [status |-> "processing", answer |-> ""],
           lastThrew |-> FALSE, returned |-> ""]

\* entry of pollForAnswer
StartPoll(ctx, conv, req, isFile) ==
  [NoPoll EXCEPT !.ctx = ctx, !.conv = conv, !.req = req, !.isFile = isFile,
                 !.maxAttempts = pollBudget(isFile), !.state = "running"]

NoUpload == [attempt |-> 0, maxRetries |-> 0, backoff |-> 0,
             tempExists |-> FALSE, uploadedFiles |-> {}, fileId |-> 0,
             calls |-> 0]

\* the calls in flight on the shared handler
Calls == 1..NumCalls

\* locals of one handleLargeRequest call that has not started
NoCall ==
  [pc |-> "start", tokens |-> 0, n |-> 1, strategy |-> "none", i |-> 0,
   conversationId |-> 0, requestId |-> 0, fileId |-> 0, uploadedFiles |-> {},
   answer |-> [conv |-> 0, seq |-> 0],
   result |-> [set |-> FALSE, conversationId |-> 0,
               answer |-> [conv |-> 0, seq |-> 0], fileId |-> 0,
               processingSteps |-> <<>>]]

\* the backend before any call: per conversation the call that created it,
\* the number of messages sent on it, the exchanges not yet answered and the
\* calls that continued it; per file the call that uploaded it
NoServer ==
  [convBy |-> <<>>, sent |-> <<>>, open |-> <<>>, continuedBy |-> <<>>,
   fileBy |-> <<>>]

\* a handler constructed with the default options and not yet called
NoConcurrent ==
  [handler |-> [strategy |-> "auto"],
   call |-> [r \in Calls |-> NoCall],
   steps |-> [r \in Calls |-> <<>>],
   server |-> NoServer]

\* a get_answer response nobody has received
NoResponse == [status |-> "pending", answer |-> <<>>]

\* a route that has not received its request; stored is the conversation
\* the session id is mapped to in redis (0: none)
NoRoute ==
  [kind |-> "complete", pc |-> "start", hadMapping |-> FALSE, stored |-> 0,
   conv |-> 0, req |-> 0, creates |-> 0, continues |-> 0, polls |-> 0,
   got |-> NoResponse, last |-> NoResponse, final |-> NoResponse,
   finished |-> FALSE,
   sent |-> <<>>, extending |-> TRUE, events |-> <<>>, ended |-> FALSE,
   reply |-> [status |-> 0, completion |-> <<>>, error |-> "none"]]

\* the requests of one session id
Requests == 1..NumRequests

\* locals of a small-message request that has not started; toqanConv is 0
\* while null, request_id is Undefined until assigned, firstRead and
\* secondRead are what the two hget calls answered, polled is the request
\* id pollAnswer was called with (0: pollAnswer not called)
NoSessionRequest ==
  [pc |-> "start", toqanConv |-> 0, request_id |-> Undefined,
   locked |-> FALSE, firstRead |-> Undefined, secondRead |-> Undefined,
   throws |-> FALSE, sends |-> 0, polled |-> 0, polledConv |-> 0]

\* redis and the backend before any request of the session: no mapping
\* (0), no lock key, no createConversation made
NoSession ==
  [map |-> 0, lock |-> FALSE, creates |-> 0, mapped |-> {},
   req |-> [r \in Requests |-> NoSessionRequest]]

\* a ProgressStreamManager as its constructor leaves it, with the stream it
\* writes to (stream: what reply.write has accepted so far) and the clock
\* (now: Date.now(), which at construction is far beyond lastUpdateTime = 0
\* plus any interval).  passed counts the updates passed to sendProgress,
\* accepted lists those pushed on the buffer, writeFailed tells whether a
\* write has thrown, calls and lateCalls count the calls made and those
\* made on a closed manager.
NoManager ==
  [options |-> [updateInterval |-> DefaultUpdateInterval, bufferSize |-> 1],
   closed |-> FALSE, messageBuffer |-> <<>>, lastUpdateTime |-> 0,
   now |-> DefaultUpdateInterval, stream |-> <<>>,
   passed |-> 0, accepted |-> <<>>, writeFailed |-> FALSE,
   calls |-> 0, lateCalls |-> 0, closedBy |-> "none"]

\* no estimate has been classified
NoSelection ==
  [tokens |-> <<0, 0>>, strategy |-> <<"none", "none">>]

\* no progress callback, nothing delivered
NoProgress == [callback |-> FALSE, events |-> <<>>]

\* SmartRequestHandler.sendProgress: if (callback) callback(update)
sendProgress(p, update) ==
  IF p.callback THEN [p EXCEPT !.events = Append(@, update)] ELSE p

\* a ChunkingService with the constructor's defaults, not yet called
NoSegmenter ==
  [pc |-> "idle", text |-> <<>>,
   options |-> [maxTokensPerChunk |-> DefaultMaxTokensPerChunk,
                overlapTokens |-> DefaultOverlapTokens,
                splitStrategy |-> "paragraph",
                chunkPrefix |-> <<>>, chunkSuffix |-> <<>>],
   chunks |-> <<>>]

\* a FileUploadService that has not been called; uploadedFiles holds the
\* file ids tracked by the instance, before those it tracked at the call
NoService ==
  [pc |-> "idle", content |-> Msg(0, 0, 0, 0), autoCleanup |-> TRUE,
   maxRetries |-> DefaultMaxRetries, before |-> {}, uploadedFiles |-> {},
   attempt |-> 0, calls |-> 0, failed |-> 0, waits |-> <<>>,
   lastError |-> "null", errs |-> <<>>, tempWritten |-> FALSE,
   tempExists |-> FALSE,
   result |-> [set |-> FALSE, fileId |-> 0, tempFilePath |-> "undefined"],
   error |-> [kind |-> "none", attempts |-> 0, cause |-> "null",
              wraps |-> <<>>]]

NoLocals == [i |-> 0, chunks |-> <<>>, conversationId |-> 0,
             lastRequestId |-> 0, totalResponseTokens |-> 0,
             fileResult |-> NoResult]

Init ==
  /\ msg \in Messages
  /\ optStrategy \in StrategyOptions
  /\ nSeg \in 1..MaxChunks
  /\ pc = "start"
  /\ strategy = "none"
  /\ steps = <<>>
  /\ trace = <<>>
  /\ poll = NoPoll
  /\ upl = NoUpload
  /\ loc = NoLocals
  /\ result = NoResult
  /\ error = NoError
  /\ backend = [conv |-> 0, req |-> 10, file |-> 20]
  /\ \E supplied \in BOOLEAN :
       progress = [NoProgress EXCEPT !.callback = supplied]
  /\ svc = NoService
  /\ seg = NoSegmenter
  /\ sel = NoSelection
  /\ psm = NoManager
  /\ sess = NoSession
  /\ route = NoRoute
  /\ conc = NoConcurrent


\* the failed step the enclosing strategy handler's catch block appends
handlerStep(ctx) ==
  CASE ctx = "direct" -> "Direct Request"
    [] ctx \in {"chunk", "final"} -> "Chunked Request"
    [] ctx = "file" -> "File Request"
    [] OTHER -> ""

SendEvent(op, conv, m, files, ok, rconv, rreq) ==
  [type |-> "send", op |-> op, conv |-> conv, msg |-> m, files |-> files,
   ok |-> ok, rconv |-> rconv, rreq |-> rreq]

PollEvent(p, ok, answer) ==
  [type |-> "poll", conv |-> p.conv, req |-> p.req, ok |-> ok,
   answer |-> answer, isFile |-> p.isFile]

UploadEvent(attempt, ok, fileId) ==
  [type |-> "upload", attempt |-> attempt, ok |-> ok, fileId |-> fileId]

TransportError == Err("Transport", 0)

(***************************************************************************)
(* handleLargeRequest up to the switch.                                    *)
(***************************************************************************)
\* variant: the override is ignored, the estimate always decides
strategyFor_IgnoresOverride(override, tokens) == getRecommendedStrategy(tokens)

\* mergedOptions.strategy === 'auto' ? getRecommendedStrategy(message)
\*                                   : mergedOptions.strategy
strategyFor(override, tokens) ==
  IF override = "auto" THEN getRecommendedStrategy(tokens) ELSE override

SelectStrategy ==
  /\ pc = "start"
  /\ strategy' = strategyFor(optStrategy, msg.tokens)
  /\ progress' = sendProgress(progress,
                    [type |-> "status", step |-> "strategy_selection"])
  /\ steps' = addProcessingStep(steps, "Strategy Selection", TRUE, NoError)
  /\ pc' = "dispatch"
  /\ UNCHANGED <<standalone, inputs, trace, poll, upl, loc, result, error, backend>>

\* variant: an unrecognised strategy silently falls back to direct
UnknownStrategy_DefaultsToDirect ==
  /\ pc = "dispatch"
  /\ strategy \notin {"direct", "chunks", "file", "hybrid"}
  /\ strategy' = "direct"
  /\ UNCHANGED <<standalone, inputs, progress, pc, steps, trace, poll, upl, loc, result, error,
                 backend>>

\* switch (strategy) default: throw new Error(`Unknown strategy: ...`)
UnknownStrategy ==
  /\ pc = "dispatch"
  /\ strategy \notin {"direct", "chunks", "file", "hybrid"}
  /\ Reject(steps, "", Err("UnknownStrategy", 0))
  /\ UNCHANGED <<standalone, inputs, progress, strategy, trace, poll, upl, loc, backend>>

(***************************************************************************)
(* handleDirectRequest: await createConversation(message).                 *)
(***************************************************************************)
DirectCreate ==
  /\ pc = "dispatch"
  /\ strategy = "direct"
  /\ \E ok \in BOOLEAN :
       LET rc == backend.conv + 1
           rq == backend.req + 1
       IN  IF ok
             THEN /\ trace' = Append(trace,
                        SendEvent("create", 0, Sent("raw", 0, 0, "none"),
                                  {}, TRUE, rc, rq))
                  /\ backend' = [backend EXCEPT !.conv = rc, !.req = rq]
                  /\ steps' = addProcessingStep(steps, "Create Conversation",
                                                TRUE, NoError)
                  /\ loc' = [loc EXCEPT !.conversationId = rc,
                                        !.lastRequestId = rq]
                  /\ poll' = StartPoll("direct", rc, rq, FALSE)
                  /\ pc' = "poll"
                  /\ UNCHANGED <<result, error>>
             ELSE /\ trace' = Append(trace,
                        SendEvent("create", 0, Sent("raw", 0, 0, "none"),
                                  {}, FALSE, 0, 0))
                  /\ Reject(steps, "Direct Request", TransportError)
                  /\ UNCHANGED <<backend, loc, poll>>
  /\ UNCHANGED <<standalone, inputs, progress, strategy, upl>>

(***************************************************************************)
(* handleChunkedRequest.                                                   *)
(***************************************************************************)
\* chunkText(message, chunkOptions) and the empty check
BeginChunked ==
  /\ pc = "dispatch"
  /\ strategy = "chunks"
  /\ LET chunks == chunkText(IsBlank(msg), nSeg)
         s1 == addProcessingStep(steps, "Text Chunking", TRUE, NoError)
     IN  IF Len(chunks) = 0
           THEN /\ Reject(s1, "Chunked Request", Err("NoChunks", 0))
                /\ UNCHANGED loc
           ELSE /\ loc' = [loc EXCEPT !.chunks = chunks, !.i = 1]
                /\ steps' = s1
                /\ pc' = "chunk_send"
                /\ UNCHANGED <<result, error>>
  /\ UNCHANGED <<standalone, inputs, progress, strategy, trace, poll, upl, backend>>

\* variant: every chunk opens a conversation of its own
chunkTarget_AlwaysCreate(chunk, conversationId) == 0

\* the conversation a chunk is sent on: 0 stands for a createConversation
chunkTarget(chunk, conversationId) ==
  IF chunk.isFirst THEN 0 ELSE conversationId

\* loop body up to the poll: createConversation for the first chunk,
\* continueConversation(conversationId, ...) for the others
ChunkSend ==
  /\ pc = "chunk_send"
  /\ LET chunk == loc.chunks[loc.i]
         target == chunkTarget(chunk, loc.conversationId)
         op == IF target = 0 THEN "create" ELSE "continue"
         rc == IF target = 0 THEN backend.conv + 1 ELSE target
         rq == backend.req + 1
         m == formatChunkMessage(chunk)
     IN  \E ok \in BOOLEAN :
           IF ok
             THEN /\ trace' = Append(trace,
                               SendEvent(op, target, m, {}, TRUE, rc, rq))
                  /\ backend' = [backend EXCEPT
                                   !.conv = IF target = 0 THEN rc ELSE @,
                                   !.req = rq]
                  /\ loc' = [loc EXCEPT
                               !.conversationId = IF chunk.isFirst THEN rc ELSE @,
                               !.lastRequestId = rq]
                  /\ steps' = addProcessingStep(steps,
                                "Process Chunk " \o ToString(chunk.index + 1),
                                TRUE, NoError)
                  /\ poll' = StartPoll("chunk", rc, rq, FALSE)
                  /\ pc' = "poll"
                  /\ UNCHANGED <<result, error>>
             ELSE /\ trace' = Append(trace,
                               SendEvent(op, target, m, {}, FALSE, 0, 0))
                  /\ Reject(steps, "Chunked Request", TransportError)
                  /\ UNCHANGED <<backend, loc, poll>>
  /\ UNCHANGED <<standalone, inputs, progress, strategy, upl>>

\* the consolidation continueConversation after the loop
FinalSend ==
  /\ pc = "final_send"
  /\ LET rq == backend.req + 1
         m == Sent("consolidate", 0, 0, "none")
     IN  \E ok \in BOOLEAN :
           IF ok
             THEN /\ trace' = Append(trace,
                        SendEvent("continue", loc.conversationId, m, {}, TRUE,
                                  loc.conversationId, rq))
                  /\ backend' = [backend EXCEPT !.req = rq]
                  /\ loc' = [loc EXCEPT !.lastRequestId = rq]
                  /\ poll' = StartPoll("final", loc.conversationId, rq, FALSE)
                  /\ pc' = "poll"
                  /\ UNCHANGED <<steps, result, error>>
             ELSE /\ trace' = Append(trace,
                        SendEvent("continue", loc.conversationId, m, {}, FALSE,
                                  0, 0))
                  /\ Reject(steps, "Chunked Request", TransportError)
                  /\ UNCHANGED <<backend, loc, poll>>
  /\ UNCHANGED <<standalone, inputs, progress, strategy, upl>>


(***************************************************************************)
(* handleFileRequest, entered from the switch (strategy file, on the       *)
(* message) or from handleHybridRequest (on message.substring(0, split)).  *)
(***************************************************************************)
\* uploadTextAsFile up to the first await: the empty check, the temp file
BeginFile ==
  /\ pc = "dispatch"
  /\ strategy \in {"file", "hybrid"}
  /\ LET blank == IF strategy = "file" THEN IsBlank(msg)
                  ELSE fileContentBlank(msg)
     IN  IF blank
           THEN /\ Reject(steps, "File Request", Err("EmptyContent", 0))
                /\ UNCHANGED upl
           ELSE /\ upl' = [NoUpload EXCEPT !.attempt = 1,
                                           !.maxRetries = DefaultMaxRetries,
                                           !.tempExists = TRUE]
                /\ pc' = "upload"
                /\ UNCHANGED <<steps, result, error>>
  /\ UNCHANGED <<standalone, inputs, progress, strategy, trace, poll, loc, backend>>

\* one iteration of uploadWithRetry: await toqanUploadFile(...), and what
\* follows it in uploadTextAsFile and handleFileRequest
UploadAttempt ==
  /\ pc = "upload"
  /\ \E ok \in BOOLEAN :
       IF ok
         THEN LET fid == backend.file + 1
              IN  /\ trace' = Append(trace, UploadEvent(upl.attempt, TRUE, fid))
                  /\ backend' = [backend EXCEPT !.file = fid]
                  /\ upl' = [upl EXCEPT !.calls = @ + 1,
                                        !.fileId = fid,
                                        !.uploadedFiles = @ \cup {fid},
                                        !.tempExists = FALSE]
                  /\ steps' = addProcessingStep(steps, "File Upload", TRUE,
                                                NoError)
                  /\ pc' = "file_create"
                  /\ UNCHANGED <<result, error>>
         ELSE LET wait == IF uploadBacksOff(upl.attempt, upl.maxRetries)
                            THEN backoffDelay(upl.attempt) ELSE 0
                  next == upl.attempt + 1
              IN  /\ trace' = Append(trace, UploadEvent(upl.attempt, FALSE, 0))
                  /\ UNCHANGED backend
                  /\ IF uploadLoopRuns(next, upl.maxRetries)
                       THEN /\ upl' = [upl EXCEPT !.calls = @ + 1,
                                                  !.attempt = next,
                                                  !.backoff = @ + wait]
                            /\ UNCHANGED <<pc, steps, result, error>>
                       ELSE /\ upl' = [upl EXCEPT !.calls = @ + 1,
                                                  !.backoff = @ + wait,
                                                  !.tempExists = FALSE]
                            /\ Reject(steps, "File Request",
                                 Wrap(Err("UploadFailed", upl.maxRetries),
                                      "File upload failed"))
  /\ UNCHANGED <<standalone, inputs, progress, strategy, poll, loc>>

\* variant: the conversation is created without the file
fileRefs_None(uploadedId) == {}

\* the files handleFileRequest references in createConversation
fileRefs(uploadedId) == {uploadedId}

\* await createConversation(fileMessage, [{ id: uploadResult.fileId }])
FileCreate ==
  /\ pc = "file_create"
  /\ LET rc == backend.conv + 1
         rq == backend.req + 1
         m == Sent("file_instruction", 0, 0, "none")
     IN  \E ok \in BOOLEAN :
           IF ok
             THEN /\ trace' = Append(trace,
                        SendEvent("create", 0, m, fileRefs(upl.fileId), TRUE,
                                  rc, rq))
                  /\ backend' = [backend EXCEPT !.conv = rc, !.req = rq]
                  /\ steps' = addProcessingStep(steps,
                                "Create Conversation with File", TRUE, NoError)
                  /\ loc' = [loc EXCEPT !.conversationId = rc,
                                        !.lastRequestId = rq]
                  /\ poll' = StartPoll("file", rc, rq, TRUE)
                  /\ pc' = "poll"
                  /\ UNCHANGED <<result, error>>
             ELSE /\ trace' = Append(trace,
                        SendEvent("create", 0, m, fileRefs(upl.fileId), FALSE,
                                  0, 0))
                  /\ Reject(steps, "File Request", TransportError)
                  /\ UNCHANGED <<backend, loc, poll>>
  /\ UNCHANGED <<standalone, inputs, progress, strategy, upl>>

(***************************************************************************)
(* handleHybridRequest after handleFileRequest has returned.               *)
(***************************************************************************)
\* variant: the remainder is continued on the request id
hybridTarget_RequestId(fileResult) == fileResult.requestId

\* the conversation the remainder is continued on
hybridTarget(fileResult) == fileResult.conversationId

\* loop body: await continueConversation(fileResult.conversationId, chunk)
HybridSend ==
  /\ pc = "hybrid_send"
  /\ LET chunk == loc.chunks[loc.i]
         target == hybridTarget(loc.fileResult)
         rq == backend.req + 1
         m == formatChunkMessage(chunk)
     IN  \E ok \in BOOLEAN :
           IF ok
             THEN /\ trace' = Append(trace,
                        SendEvent("continue", target, m, {}, TRUE, target, rq))
                  /\ backend' = [backend EXCEPT !.req = rq]
                  /\ poll' = StartPoll("hybrid_chunk", target, rq, FALSE)
                  /\ pc' = "poll"
                  /\ UNCHANGED <<steps, result, error>>
             ELSE /\ trace' = Append(trace,
                        SendEvent("continue", target, m, {}, FALSE, 0, 0))
                  /\ Reject(steps, "", TransportError)
                  /\ UNCHANGED <<backend, poll>>
  /\ UNCHANGED <<standalone, inputs, progress, strategy, upl, loc>>

\* the consolidation continueConversation of the hybrid strategy
HybridFinalSend ==
  /\ pc = "hybrid_final_send"
  /\ LET target == hybridTarget(loc.fileResult)
         rq == backend.req + 1
         m == Sent("hybrid_consolidate", 0, 0, "none")
     IN  \E ok \in BOOLEAN :
           IF ok
             THEN /\ trace' = Append(trace,
                        SendEvent("continue", target, m, {}, TRUE, target, rq))
                  /\ backend' = [backend EXCEPT !.req = rq]
                  /\ poll' = StartPoll("hybrid_final", target, rq, FALSE)
                  /\ pc' = "poll"
                  /\ UNCHANGED <<steps, result, error>>
             ELSE /\ trace' = Append(trace,
                        SendEvent("continue", target, m, {}, FALSE, 0, 0))
                  /\ Reject(steps, "", TransportError)
                  /\ UNCHANGED <<backend, poll>>
  /\ UNCHANGED <<standalone, inputs, progress, strategy, upl, loc>>


(***************************************************************************)
(* The values the strategy handlers return.                                *)
(***************************************************************************)
\* variant: the two ids of the create response swapped
directResult_SwappedIds(conv, req, answer) ==
  [NoResult EXCEPT !.conversationId = req, !.requestId = conv,
                   !.strategy = "direct", !.answer = answer,
                   !.totalResponseTokens = AnswerTokens(answer)]

directResult(conv, req, answer) ==
  [NoResult EXCEPT !.conversationId = conv, !.requestId = req,
                   !.strategy = "direct", !.answer = answer,
                   !.totalResponseTokens = AnswerTokens(answer)]

chunkedResult(conv, finalReq, finalAnswer, total, n) ==
  [NoResult EXCEPT !.conversationId = conv, !.requestId = finalReq,
                   !.strategy = "chunks", !.answer = finalAnswer,
                   !.totalResponseTokens = total, !.chunksProcessed = n]

fileResultOf(conv, req, answer, fileId) ==
  [NoResult EXCEPT !.conversationId = conv, !.requestId = req,
                   !.strategy = "file", !.answer = answer,
                   !.totalResponseTokens = AnswerTokens(answer),
                   !.fileId = fileId]

\* variant: the file conversation's answer is kept
hybridResult_KeepsFileAnswer(fileResult, finalReq, finalAnswer, n) ==
  [fileResult EXCEPT !.strategy = "hybrid", !.requestId = finalReq,
                     !.chunksProcessed = n]

\* { ...fileResult, strategy: 'hybrid', answer, requestId, chunksProcessed }
hybridResult(fileResult, finalReq, finalAnswer, n) ==
  [fileResult EXCEPT !.strategy = "hybrid", !.answer = finalAnswer,
                     !.requestId = finalReq, !.chunksProcessed = n]

\* variant: the file result is returned as it is
hybridFileOnlyResult_AsFile(fileResult) == fileResult

\* { ...fileResult, strategy: 'hybrid' }
hybridFileOnlyResult(fileResult) == [fileResult EXCEPT !.strategy = "hybrid"]

(***************************************************************************)
(* The code that runs when pollForAnswer returns `answer` to its caller,   *)
(* up to the caller's next await.  s is the audit log with the poll's      *)
(* step.                                                                   *)
(***************************************************************************)
AfterPoll(ctx, answer, s) ==
  CASE ctx = "direct" ->
         /\ Resolve(s, directResult(loc.conversationId, loc.lastRequestId,
                                    answer))
         /\ UNCHANGED loc
    [] ctx = "chunk" ->
         /\ loc' = [loc EXCEPT
                      !.totalResponseTokens = @ + AnswerTokens(answer),
                      !.i = @ + 1]
         /\ pc' = IF loc.i < Len(loc.chunks) THEN "chunk_send"
                  ELSE "final_send"
         /\ steps' = s
         /\ UNCHANGED <<result, error>>
    [] ctx = "final" ->
         /\ Resolve(addProcessingStep(s, "Final Consolidation", TRUE, NoError),
                    chunkedResult(loc.conversationId, poll.req, answer,
                       loc.totalResponseTokens + AnswerTokens(answer),
                       Len(loc.chunks)))
         /\ loc' = [loc EXCEPT
                      !.totalResponseTokens = @ + AnswerTokens(answer)]
    [] ctx = "file" ->
         LET fr == fileResultOf(loc.conversationId, loc.lastRequestId, answer,
                                upl.fileId)
         IN  IF strategy = "file"
               THEN /\ Resolve(s, fr)
                    /\ UNCHANGED loc
             ELSE IF ~remainingBlank(msg)
               THEN LET chunks == chunkText(FALSE, nSeg)
                    IN  /\ loc' = [loc EXCEPT !.fileResult = fr,
                                              !.chunks = chunks, !.i = 1]
                        /\ pc' = IF Len(chunks) > 0 THEN "hybrid_send"
                                 ELSE "hybrid_final_send"
                        /\ steps' = s
                        /\ UNCHANGED <<result, error>>
             ELSE /\ Resolve(s, hybridFileOnlyResult(fr))
                  /\ loc' = [loc EXCEPT !.fileResult = fr]
    [] ctx = "hybrid_chunk" ->
         /\ loc' = [loc EXCEPT !.i = @ + 1]
         /\ pc' = IF loc.i < Len(loc.chunks) THEN "hybrid_send"
                  ELSE "hybrid_final_send"
         /\ steps' = s
         /\ UNCHANGED <<result, error>>
    [] ctx = "hybrid_final" ->
         /\ Resolve(addProcessingStep(s, "Hybrid Processing", TRUE, NoError),
                    hybridResult(loc.fileResult, poll.req, answer,
                                 Len(loc.chunks)))
         /\ UNCHANGED loc

(***************************************************************************)
(* pollForAnswer: one iteration of the loop, from await getAnswer(...) to  *)
(* the next one (the sleeps included), or to the return or throw.          *)
(***************************************************************************)
\* attempts++ and the loop test; leaving the loop is the timeout
PollNextAttempt(p) ==
  LET p2 == [p EXCEPT !.attempts = @ + 1]
  IN  IF pollLoopRuns(p2.attempts, p2.maxAttempts)
        THEN /\ poll' = p2
             /\ UNCHANGED <<pc, steps, trace, loc, result, error>>
        ELSE LET e == Err("Timeout", p2.attempts)
             IN  /\ poll' = [p2 EXCEPT !.state = "timeout"]
                 /\ trace' = Append(trace, PollEvent(p2, FALSE, ""))
                 /\ Reject(addProcessingStep(steps, "Poll for Answer", FALSE, e),
                           handlerStep(p.ctx), e)
                 /\ UNCHANGED loc

\* getAnswer resolves with response r
GetAnswerReturns ==
  /\ pc = "poll"
  /\ \E r \in Responses :
       LET p1 == [poll EXCEPT !.calls = @ + 1, !.resp = r, !.lastThrew = FALSE]
       IN  IF pollSucceeded(r)
             THEN /\ poll' = [p1 EXCEPT !.state = "ok",
                                             !.returned = pollReturn(r)]
                  /\ trace' = Append(trace, PollEvent(p1, TRUE, pollReturn(r)))
                  /\ AfterPoll(poll.ctx, pollReturn(r),
                       addProcessingStep(steps, "Poll for Answer", TRUE,
                                         NoError))
             ELSE PollNextAttempt([p1 EXCEPT !.notFinished = @ + 1])
  /\ UNCHANGED <<standalone, inputs, progress, strategy, upl, backend>>

\* getAnswer rejects (transport error)
GetAnswerThrows ==
  /\ pc = "poll"
  /\ LET p1 == [poll EXCEPT !.calls = @ + 1, !.errors = @ + 1,
                            !.lastThrew = TRUE]
     IN  IF pollRethrows(poll.attempts, poll.maxAttempts)
           THEN /\ poll' = [p1 EXCEPT !.state = "error"]
                /\ trace' = Append(trace, PollEvent(p1, FALSE, ""))
                /\ Reject(addProcessingStep(steps, "Poll for Answer", FALSE,
                                            TransportError),
                          handlerStep(poll.ctx), TransportError)
                /\ UNCHANGED loc
           ELSE PollNextAttempt(p1)
  /\ UNCHANGED <<standalone, inputs, progress, strategy, upl, backend>>

Next ==
  \/ SelectStrategy
  \/ UnknownStrategy
  \/ DirectCreate
  \/ BeginChunked
  \/ ChunkSend
  \/ FinalSend
  \/ BeginFile
  \/ UploadAttempt
  \/ FileCreate
  \/ HybridSend
  \/ HybridFinalSend
  \/ GetAnswerReturns
  \/ GetAnswerThrows

Spec == Init /\ [][Next]_vars

\* the request under the scheduling of the runtime: every await settles
\* (a backend call resolves or rejects within the transport timeout, a
\* timer fires), so the request is never suspended forever
LiveSpec == Spec /\ WF_vars(Next)

(***************************************************************************)
(* FileUploadService.uploadTextAsFile followed on its own: one call on an  *)
(* instance with any merged options, against a transport that resolves or  *)
(* rejects each call.  The filesystem calls (writeFileSync, readFileSync,  *)
(* unlinkSync) are taken to succeed.                                       *)
(***************************************************************************)
\* the contents uploadTextAsFile is called with: '', whitespace, text
UploadContents == {Msg(0, 0, 0, 0), Msg(4, 1, 0, 0), Msg(2000, 500, 1, 2000)}
\* file ids the transport returns, messages of the errors it rejects with
FileIds == {21, 22}
TransportErrors == {"ECONNRESET", "HTTP 500"}
\* path.join(tempDir, generateFilename(filename))
TempPath == "context-<timestamp>-<random>.txt"

\* the variables of the request, which the service on its own leaves alone
request == <<msg, optStrategy, nSeg, pc, strategy, steps, trace, poll, upl,
             loc, result, error, backend, progress>>

\* what a step of one component followed on its own leaves alone
besideUpload == <<request, seg, sel, conc, route, sess, psm>>
besideSegmenter == <<request, svc, sel, conc, route, sess, psm>>
besideSelection == <<request, svc, seg, conc, route, sess, psm>>
besideConcurrent == <<request, svc, seg, sel, route, sess, psm>>
besideRoute == <<request, svc, seg, sel, conc, sess, psm>>
besideSession == <<request, svc, seg, sel, conc, route, psm>>
besideManager == <<request, svc, seg, sel, conc, route, sess>>

NoRequest ==
  /\ msg = Msg(0, 0, 0, 0)
  /\ optStrategy = "auto"
  /\ nSeg = 1
  /\ pc = "start"
  /\ strategy = "none"
  /\ steps = <<>>
  /\ trace = <<>>
  /\ poll = NoPoll
  /\ upl = NoUpload
  /\ loc = NoLocals
  /\ result = NoResult
  /\ error = NoError
  /\ backend = [conv |-> 0, req |-> 10, file |-> 20]
  /\ progress = NoProgress

UploadInit ==
  /\ NoRequest
  /\ psm = NoManager
  /\ sess = NoSession
  /\ route = NoRoute
  /\ conc = NoConcurrent
  /\ seg = NoSegmenter
  /\ sel = NoSelection
  /\ \E c \in UploadContents, ac \in BOOLEAN, mr \in 0..MaxUploadRetries,
        tracked \in {{}, {21}} :
       svc = [NoService EXCEPT !.content = c, !.autoCleanup = ac,
                               !.maxRetries = mr, !.before = tracked,
                               !.uploadedFiles = tracked]

\* variant: only the empty string is refused, whitespace goes through
contentIsEmpty_NoTrim(content) == content.len = 0

\* uploadTextAsFile: !content || content.trim().length === 0
contentIsEmpty(content) == content.len = 0 \/ IsBlank(content)

\* variant: the catch block removes the temp file only under autoCleanup
tempKeptOnError_UnlessAutoCleanup(autoCleanup) == ~autoCleanup

\* uploadTextAsFile, catch: the temp file is unlinked when it exists
tempKeptOnError(autoCleanup) == FALSE

\* uploadTextAsFile, after the upload: unlinked when autoCleanup
tempKeptOnSuccess(autoCleanup) == ~autoCleanup

\* uploadWithRetry's throw after the loop, rethrown by uploadTextAsFile's
\* catch as `File upload failed: Upload failed after N attempts: <last>`
uploadFailedError(maxRetries, lastError) ==
  [kind |-> "UploadFailed", attempts |-> maxRetries, cause |-> lastError,
   wraps |-> <<"File upload failed">>]

\* the throw before the try block: not rethrown by the catch
emptyContentError ==
  [kind |-> "EmptyContent", attempts |-> 0, cause |-> "null", wraps |-> <<>>]

\* uploadTextAsFile's catch block after uploadWithRetry threw
UploadGivesUp(s) ==
  [s EXCEPT !.pc = "failed",
            !.tempExists = @ /\ tempKeptOnError(s.autoCleanup),
            !.error = uploadFailedError(s.maxRetries, s.lastError)]

\* uploadTextAsFile from its call to the first await in uploadWithRetry
UploadTextAsFile ==
  /\ svc.pc = "idle"
  /\ IF contentIsEmpty(svc.content)
       THEN svc' = [svc EXCEPT !.pc = "failed", !.error = emptyContentError]
       ELSE LET written == [svc EXCEPT !.tempWritten = TRUE,
                                       !.tempExists = TRUE, !.attempt = 1]
            IN  IF uploadLoopRuns(1, svc.maxRetries)
                  THEN svc' = [written EXCEPT !.pc = "transport"]
                  ELSE svc' = UploadGivesUp(written)
  /\ UNCHANGED besideUpload

\* await toqanUploadFile(...) resolves: uploadWithRetry returns the file id,
\* uploadTextAsFile builds the result, tracks it and cleans up
TransportResolves ==
  /\ svc.pc = "transport"
  /\ \E fid \in FileIds :
       svc' = [svc EXCEPT
                 !.pc = "done",
                 !.calls = @ + 1,
                 !.result = [set |-> TRUE, fileId |-> fid,
                             tempFilePath |-> IF svc.autoCleanup
                                                THEN "undefined"
                                                ELSE TempPath],
                 !.uploadedFiles = @ \cup {fid},
                 !.tempExists = tempKeptOnSuccess(svc.autoCleanup)]
  /\ UNCHANGED besideUpload

\* await toqanUploadFile(...) rejects: the catch in the loop, up to the
\* backoff timer or, on the last attempt, through the throw after the loop
TransportRejects ==
  /\ svc.pc = "transport"
  /\ \E e \in TransportErrors :
       LET s == [svc EXCEPT !.calls = @ + 1, !.failed = @ + 1,
                            !.lastError = e, !.errs = Append(@, e)]
       IN  IF uploadBacksOff(svc.attempt, svc.maxRetries)
             THEN svc' = [s EXCEPT !.pc = "backoff"]
             ELSE IF uploadLoopRuns(svc.attempt + 1, svc.maxRetries)
                    THEN svc' = [s EXCEPT !.attempt = @ + 1]
                    ELSE svc' = UploadGivesUp(s)
  /\ UNCHANGED besideUpload

\* the backoff timer fires: attempt++ and the loop's test
BackoffElapses ==
  /\ svc.pc = "backoff"
  /\ LET s == [svc EXCEPT !.waits = Append(@, backoffDelay(svc.attempt)),
                          !.attempt = @ + 1]
     IN  IF uploadLoopRuns(svc.attempt + 1, svc.maxRetries)
           THEN svc' = [s EXCEPT !.pc = "transport"]
           ELSE svc' = UploadGivesUp(s)
  /\ UNCHANGED besideUpload

UploadNext ==
  \/ UploadTextAsFile
  \/ TransportResolves
  \/ TransportRejects
  \/ BackoffElapses

UploadSpec == UploadInit /\ [][UploadNext]_vars

(***************************************************************************)
(* The token estimator and the segmenter (ChunkingService).  A text is a   *)
(* sequence of characters over a small alphabet: a letter, a sentence      *)
(* terminator, the space and the newline.  On such texts detectContentType *)
(* yields natural_language (no pattern of code or structured data can      *)
(* match) and detectLanguage yields mixed (no listed word can be spelt).   *)
(***************************************************************************)
Alphabet == {"A", ".", " ", "\n"}
ShortTexts == UNION {[1..n -> Alphabet] : n \in 0..MaxTextLen}

\* longer texts, put together from a word, a sentence with the space after
\* it and a paragraph break
Pieces == {<<"A", "A", "A">>, <<"A", ".", " ">>, <<"\n", "\n">>}

RECURSIVE Concat(_)
Concat(pieces) ==
  IF pieces = <<>> THEN <<>> ELSE Head(pieces) \o Concat(Tail(pieces))

ComposedTexts ==
  {Concat(ps) : ps \in UNION {[1..n -> Pieces] : n \in 0..MaxPieces}}

Texts == ShortTexts \cup ComposedTexts

\* the classes of the regular expressions: \s, [A-Z], [.!?]
IsSpace(c) == c \in {" ", "\n"}
IsUpper(c) == c = "A"
IsTerminator(c) == c \in {".", "!", "?"}

Max(a, b) == IF a > b THEN a ELSE b
CeilDiv(a, b) == (a + b - 1) \div b

\* variant: no trim, only the empty string counts as blank
isBlankText_NoTrim(text) == Len(text) = 0

\* text.trim().length === 0
isBlankText(text) == \A i \in 1..Len(text) : IsSpace(text[i])

\* (text.match(/\s/g) || []).length
whitespaceCount(text) == Cardinality({i \in 1..Len(text) : IsSpace(text[i])})

\* last index of the maximal whitespace run that starts at q (q - 1 when
\* text[q] is not whitespace or q is past the end)
RunEnd(text, q) ==
  CHOOSE r \in (q - 1)..Len(text) :
    /\ \A k \in q..r : IsSpace(text[k])
    /\ r = Len(text) \/ ~IsSpace(text[r + 1])

\* the match of the mode's separator pattern that starts at q: the index of
\* its last character, 0 when there is none.
\*   word       /\s+/
\*   sentence   /(?<=[.!?])\s+(?=[A-Z])/
\*   paragraph  /\n\s*\n/
MatchEnd(mode, text, q) ==
  CASE mode = "word" ->
         IF IsSpace(text[q]) THEN RunEnd(text, q) ELSE 0
    [] mode = "sentence" ->
         IF q > 1 /\ IsTerminator(text[q - 1]) /\ IsSpace(text[q])
           THEN LET r == RunEnd(text, q)
                IN  IF r < Len(text) /\ IsUpper(text[r + 1]) THEN r ELSE 0
           ELSE 0
    [] mode = "paragraph" ->
         IF text[q] = "\n"
           THEN LET r == RunEnd(text, q + 1)
                    ends == {k \in (q + 1)..r : text[k] = "\n"}
                IN  IF ends = {} THEN 0
                    ELSE CHOOSE k \in ends : \A j \in ends : j <= k
           ELSE 0

\* String.prototype.split(regexp): p is where the current piece starts, q
\* the position at which a match is tried next
RECURSIVE SplitFrom(_, _, _, _)
SplitFrom(mode, text, p, q) ==
  IF q > Len(text) THEN <<SubSeq(text, p, Len(text))>>
  ELSE LET e == MatchEnd(mode, text, q)
       IN  IF e = 0 THEN SplitFrom(mode, text, p, q + 1)
           ELSE <<SubSeq(text, p, q - 1)>> \o SplitFrom(mode, text, e + 1, e + 1)

split(text, mode) == SplitFrom(mode, text, 1, 1)

\* Array.prototype.join
RECURSIVE join(_, _)
join(units, separator) ==
  IF units = <<>> THEN <<>>
  ELSE IF Len(units) = 1 THEN units[1]
  ELSE units[1] \o separator \o join(Tail(units), separator)

\* calculateRepetitiveness(text) > 0.3.  In double precision 1 - u/w > 0.3
\* is true also at u/w = 7/10, hence >=.
isRepetitive(text) ==
  /\ Len(text) >= 100
  /\ LET words == split(text, "word")
         unique == {words[i] : i \in 1..Len(words)}
     IN  /\ Len(words) >= 10
         /\ 10 * (Len(words) - Cardinality(unique)) >= 3 * Len(words)

\* detectContentType: /^[A-Za-z\s.,!?;:'"()-]+$/ on the alphabet
detectContentType(text) ==
  IF Len(text) > 0 /\ \A i \in 1..Len(text) : text[i] \in Alphabet
    THEN "natural_language" ELSE "mixed"

\* detectLanguage: fewer than three listed words of either language
detectLanguage(text) == "mixed"

\* estimateTokens: ceil(ceil(length / 4) * content * language * traits),
\* at least 1, and 0 for the empty text.  The multipliers are kept as
\* fractions (0.85 = 17/20, 1.15 = 23/20, 1.1 = 22/20; 0.95 = 19/20,
\* 1.05 = 21/20; 0.9 = 9/10); the result equals the double-precision one
\* for natural-language texts of up to 80000 characters.
estimateTokens(text, contentType, language) ==
  IF Len(text) = 0 THEN 0
  ELSE LET baseTokens == CeilDiv(Len(text), 4)
           content == CASE contentType = "natural_language" -> 17
                        [] contentType = "code" -> 23
                        [] contentType = "structured_data" -> 22
                        [] OTHER -> 20
           lang == CASE language = "english" -> 19
                     [] language = "portuguese" -> 21
                     [] OTHER -> 20
           repeat == IF isRepetitive(text) THEN 9 ELSE 10
           white == IF 4 * whitespaceCount(text) > Len(text) THEN 21 ELSE 20
       IN  Max(1, CeilDiv(baseTokens * content * lang * repeat * white,
                          20 * 20 * 10 * 20))

smartEstimateTokens(text) ==
  estimateTokens(text, detectContentType(text), detectLanguage(text))

\* ChunkingService.addPrefixSuffix
addPrefixSuffix(content, options) ==
  options.chunkPrefix \o content \o options.chunkSuffix

\* ChunkingService.extractOverlap; [some |-> FALSE] is null
extractOverlap(text, overlapTokens) ==
  LET words == split(text, "word")
      wordsToTake == Min(overlapTokens \div 2, Len(words))
  IN  IF wordsToTake = 0 THEN [some |-> FALSE, text |-> <<>>]
      ELSE [some |-> TRUE,
            text |-> <<".", ".", ".">> \o
                     join(SubSeq(words, Len(words) - wordsToTake + 1,
                                 Len(words)), <<" ">>)]

\* ChunkingService.groupIntoBuckets: the loop from unit i on; st holds the
\* loop's variables
RECURSIVE BucketsFrom(_, _, _, _, _)
BucketsFrom(units, separator, options, i, st) ==
  IF i > Len(units)
    THEN IF Len(st.currentChunk) > 0
           THEN Append(st.chunks,
                  [content |-> addPrefixSuffix(join(st.currentChunk, separator),
                                               options),
                   tokens |-> st.currentTokens,
                   startPos |-> st.startPos, endPos |-> st.currentPos])
           ELSE st.chunks
    ELSE LET unit == units[i]
             unitTokens == smartEstimateTokens(unit)
             separatorTokens == IF i > 1 THEN smartEstimateTokens(separator)
                                ELSE 0
             totalTokensWithUnit ==
               st.currentTokens + unitTokens + separatorTokens
             full == /\ totalTokensWithUnit > options.maxTokensPerChunk
                     /\ Len(st.currentChunk) > 0
             chunkContent == join(st.currentChunk, separator)
             overlap == IF options.overlapTokens > 0
                          THEN extractOverlap(chunkContent,
                                              options.overlapTokens)
                          ELSE [some |-> FALSE, text |-> <<>>]
             opened ==
               IF full
                 THEN [chunks |-> Append(st.chunks,
                          [content |-> addPrefixSuffix(chunkContent, options),
                           tokens |-> st.currentTokens,
                           startPos |-> st.startPos,
                           endPos |-> st.currentPos]),
                       currentChunk |-> IF overlap.some THEN <<overlap.text>>
                                        ELSE <<>>,
                       currentTokens |-> IF overlap.some
                                           THEN smartEstimateTokens(overlap.text)
                                           ELSE 0,
                       startPos |-> st.currentPos,
                       currentPos |-> st.currentPos]
                 ELSE st
         IN  BucketsFrom(units, separator, options, i + 1,
               [opened EXCEPT
                  !.currentChunk = Append(@, unit),
                  !.currentTokens = @ + unitTokens + separatorTokens,
                  !.currentPos = @ + Len(unit)
                                   + (IF i > 1 THEN Len(separator) ELSE 0)])

\* variant: the loop starts at the second unit
groupIntoBuckets_SkipsFirst(units, separator, options) ==
  BucketsFrom(units, separator, options, 2,
    [chunks |-> <<>>, currentChunk |-> <<>>, currentTokens |-> 0,
     startPos |-> 0, currentPos |-> 0])

groupIntoBuckets(units, separator, options) ==
  BucketsFrom(units, separator, options, 1,
    [chunks |-> <<>>, currentChunk |-> <<>>, currentTokens |-> 0,
     startPos |-> 0, currentPos |-> 0])

\* text.lastIndexOf(' ', fromIndex), 0-based, -1 when there is none
lastIndexOfSpace(text, fromIndex) ==
  LET at == {k \in 0..Min(fromIndex, Len(text) - 1) : text[k + 1] = " "}
  IN  IF at = {} THEN -1 ELSE CHOOSE k \in at : \A j \in at : j <= k

\* variant: the character at the cut is skipped
nextStartPos_SkipsCut(endPos) == endPos + 1

\* splitByCharacters: startPos = endPos
nextStartPos(endPos) == endPos

\* ChunkingService.splitByCharacters: the loop from startPos (0-based) on
RECURSIVE CharactersFrom(_, _, _)
CharactersFrom(text, options, startPos) ==
  IF ~(startPos < Len(text)) THEN <<>>
  ELSE LET maxCharsPerChunk == options.maxTokensPerChunk * 4
           cut == Min(startPos + maxCharsPerChunk, Len(text))
           nearbySpace == lastIndexOfSpace(text, cut)
           endPos == IF /\ cut < Len(text)
                        /\ nearbySpace > startPos
                        /\ nearbySpace > cut - 100
                       THEN nearbySpace ELSE cut
           chunkContent == SubSeq(text, startPos + 1, endPos)
       IN  <<[content |-> addPrefixSuffix(chunkContent, options),
              tokens |-> smartEstimateTokens(chunkContent),
              startPos |-> startPos, endPos |-> endPos]>>
             \o CharactersFrom(text, options, nextStartPos(endPos))

\* ChunkingService.performSplit
performSplit(text, options) ==
  CASE options.splitStrategy = "paragraph" ->
         groupIntoBuckets(split(text, "paragraph"), <<"\n", "\n">>, options)
    [] options.splitStrategy = "sentence" ->
         groupIntoBuckets(split(text, "sentence"), <<" ">>, options)
    [] options.splitStrategy = "word" ->
         groupIntoBuckets(split(text, "word"), <<" ">>, options)
    [] OTHER -> CharactersFrom(text, options, 0)

\* variant: the single chunk gets the prefix and the suffix like the others
singleChunk_WithAffixes(text, totalTokens, options) ==
  <<[content |-> addPrefixSuffix(text, options), tokens |-> totalTokens,
     index |-> 0, totalChunks |-> 1, isFirst |-> TRUE, isLast |-> TRUE,
     startPos |-> 0, endPos |-> Len(text)]>>

\* splitText: the text fits in one chunk and is returned as it is
singleChunk(text, totalTokens, options) ==
  <<[content |-> text, tokens |-> totalTokens,
     index |-> 0, totalChunks |-> 1, isFirst |-> TRUE, isLast |-> TRUE,
     startPos |-> 0, endPos |-> Len(text)]>>

\* variant: isLast compares the index with the length, not the length - 1
withMetadata_LastOffByOne(chunks) ==
  [k \in 1..Len(chunks) |->
     [content |-> chunks[k].content, tokens |-> chunks[k].tokens,
      index |-> k - 1, totalChunks |-> Len(chunks),
      isFirst |-> (k - 1 = 0), isLast |-> (k - 1 = Len(chunks)),
      startPos |-> chunks[k].startPos, endPos |-> chunks[k].endPos]]

\* splitText: chunks.map((chunk, index) => ({...chunk, index, ...}))
withMetadata(chunks) ==
  [k \in 1..Len(chunks) |->
     [content |-> chunks[k].content, tokens |-> chunks[k].tokens,
      index |-> k - 1, totalChunks |-> Len(chunks),
      isFirst |-> (k - 1 = 0), isLast |-> (k - 1 = Len(chunks) - 1),
      startPos |-> chunks[k].startPos, endPos |-> chunks[k].endPos]]

\* ChunkingService.splitText
splitText(text, options) ==
  IF Len(text) = 0 \/ isBlankText(text) THEN <<>>
  ELSE LET totalTokens == smartEstimateTokens(text)
       IN  IF totalTokens <= options.maxTokensPerChunk
             THEN singleChunk(text, totalTokens, options)
             ELSE withMetadata(performSplit(text, options))

\* the merged options of the instances followed
SplitStrategies == {"paragraph", "sentence", "word", "character"}
ChunkOptionSets ==
  [maxTokensPerChunk : 1..MaxCeiling,
   overlapTokens : {0, 2},
   splitStrategy : SplitStrategies,
   chunkPrefix : {<<>>, <<">">>},
   chunkSuffix : {<<>>}]
    \cup
  [maxTokensPerChunk : 1..MaxCeiling,
   overlapTokens : {0},
   splitStrategy : SplitStrategies,
   chunkPrefix : {<<">">>},
   chunkSuffix : {<<"<">>}]

SegmenterInit ==
  /\ NoRequest
  /\ psm = NoManager
  /\ sess = NoSession
  /\ route = NoRoute
  /\ conc = NoConcurrent
  /\ svc = NoService
  /\ sel = NoSelection
  /\ \E t \in Texts, o \in ChunkOptionSets :
       seg = [NoSegmenter EXCEPT !.text = t, !.options = o]

\* one call of splitText on the instance
SplitText ==
  /\ seg.pc = "idle"
  /\ seg' = [seg EXCEPT !.pc = "done",
                        !.chunks = splitText(seg.text, seg.options)]
  /\ UNCHANGED besideSegmenter

SegmenterNext == SplitText

SegmenterSpec == SegmenterInit /\ [][SegmenterNext]_vars

(***************************************************************************)
(* Strategy selection on its own: getRecommendedStrategy applied to two    *)
(* estimates, taken from both sides of each of its thresholds.             *)
(***************************************************************************)
\* values smartEstimateTokens may return, around the three thresholds
Estimates ==
  {0, 1, DirectLimit - 1, DirectLimit, DirectLimit + 1,
   ChunkLimit - 1, ChunkLimit, ChunkLimit + 1,
   FileLimit - 1, FileLimit, FileLimit + 1, MaxEstimate}

SelectionInit ==
  /\ NoRequest
  /\ psm = NoManager
  /\ sess = NoSession
  /\ route = NoRoute
  /\ conc = NoConcurrent
  /\ svc = NoService
  /\ seg = NoSegmenter
  /\ \E a \in Estimates, b \in Estimates :
       sel = [NoSelection EXCEPT !.tokens = <<a, b>>]

\* one call of getRecommendedStrategy, on the i-th text
Recommend(i) ==
  /\ sel.strategy[i] = "none"
  /\ sel' = [sel EXCEPT !.strategy[i] = getRecommendedStrategy(sel.tokens[i])]
  /\ UNCHANGED besideSelection

SelectionNext == \E i \in 1..2 : Recommend(i)

SelectionSpec == SelectionInit /\ [][SelectionNext]_vars

(***************************************************************************)
(* Several calls of handleLargeRequest in flight on one SmartRequestHandler,*)
(* as the routes make them on the shared smartHandler.  The handler's      *)
(* options and the backend are shared; each step is the code of one call   *)
(* between two awaits, and the steps of different calls interleave.        *)
(***************************************************************************)
\* the estimates of the messages, one per strategy, and the number of
\* segments chunkText yields for those that are segmented
CallInputs ==
  {[tokens |-> DirectLimit - 15000, n |-> 1],
   [tokens |-> ChunkLimit - 50000, n |-> MaxChunks],
   [tokens |-> FileLimit - 250000, n |-> 1],
   [tokens |-> FileLimit + 100000, n |-> MaxChunks]}

\* the calls are interchangeable: they are numbered by estimate and segments
InputOrder(a, b) ==
  \/ a.tokens < b.tokens
  \/ a.tokens = b.tokens /\ a.n <= b.n

ConcurrentInit ==
  /\ NoRequest
  /\ psm = NoManager
  /\ sess = NoSession
  /\ route = NoRoute
  /\ svc = NoService
  /\ seg = NoSegmenter
  /\ sel = NoSelection
  /\ \E in \in [Calls -> CallInputs] :
       /\ \A r \in Calls : r + 1 \in Calls => InputOrder(in[r], in[r + 1])
       /\ conc = [NoConcurrent EXCEPT
                    !.call = [r \in Calls |->
                                [NoCall EXCEPT !.tokens = in[r].tokens,
                                               !.n = in[r].n]]]

\* variant: processingSteps is a field of the handler, one array for all
\* calls
stepsArray_OnHandler(r) == 1

\* const processingSteps: ProcessingStep[] = [] is a local of the call
stepsArray(r) == r

\* this.addProcessingStep(steps, name, ...) executed by call r
CallLogs(c, r, name) ==
  [c EXCEPT !.steps[stepsArray(r)] = Append(@, [step |-> name, by |-> r])]

\* the catch of the strategy handler the call is in: its failed step
CallCatch(c, r) ==
  CASE c.call[r].strategy = "direct" -> CallLogs(c, r, "Direct Request")
    [] c.call[r].strategy = "chunks" -> CallLogs(c, r, "Chunked Request")
    [] c.call[r].strategy = "file" -> CallLogs(c, r, "File Request")
    [] c.call[r].strategy = "hybrid" /\ c.call[r].i = 0 ->
         CallLogs(c, r, "File Request")
    [] OTHER -> c

\* a rejected await: the handler's catch, then the catch of
\* handleLargeRequest with its 'Error' step and the throw
CallRejects(c, r) ==
  [CallLogs(CallCatch(c, r), r, "Error") EXCEPT !.call[r].pc = "failed"]

\* the answer the backend holds for the seq-th message of a conversation
AnswerOf(conversationId, requestId) ==
  [conv |-> conversationId, seq |-> requestId]

\* handleLargeRequest up to the first await of the strategy handler
CallStart(r) ==
  /\ conc.call[r].pc = "start"
  /\ LET strat == strategyFor(conc.handler.strategy, conc.call[r].tokens)
         c1 == CallLogs(conc, r, "Strategy Selection")
     IN  conc' =
           CASE strat = "direct" ->
                  [c1 EXCEPT !.call[r].strategy = strat,
                             !.call[r].pc = "create"]
             [] strat = "chunks" ->
                  [CallLogs(c1, r, "Text Chunking") EXCEPT
                     !.call[r].strategy = strat, !.call[r].i = 1,
                     !.call[r].pc = "create"]
             [] OTHER ->
                  [c1 EXCEPT !.call[r].strategy = strat,
                             !.call[r].pc = "upload"]
  /\ UNCHANGED besideConcurrent

\* await uploadService.uploadTextAsFile(...) on the call's own
\* FileUploadService
CallUpload(r) ==
  /\ conc.call[r].pc = "upload"
  /\ \E ok \in BOOLEAN :
       IF ok
         THEN LET fid == Len(conc.server.fileBy) + 1
              IN  conc' = [CallLogs(conc, r, "File Upload") EXCEPT
                             !.server.fileBy = Append(@, r),
                             !.call[r].fileId = fid,
                             !.call[r].uploadedFiles = @ \cup {fid},
                             !.call[r].pc = "create"]
         ELSE conc' = CallRejects(conc, r)
  /\ UNCHANGED besideConcurrent

\* await createConversation(...): the direct message, the first chunk, or
\* the file instruction
CallCreate(r) ==
  /\ conc.call[r].pc = "create"
  /\ \E ok \in BOOLEAN :
       IF ok
         THEN LET cid == Len(conc.server.convBy) + 1
                  name == CASE conc.call[r].strategy = "direct" ->
                                 "Create Conversation"
                            [] conc.call[r].strategy = "chunks" ->
                                 "Process Chunk 1"
                            [] OTHER -> "Create Conversation with File"
              IN  conc' = [CallLogs(conc, r, name) EXCEPT
                             !.server.convBy = Append(@, r),
                             !.server.sent = Append(@, 1),
                             !.server.open = Append(@, 1),
                             !.server.continuedBy = Append(@, {}),
                             !.call[r].conversationId = cid,
                             !.call[r].requestId = 1,
                             !.call[r].pc = "poll"]
         ELSE conc' = CallRejects(conc, r)
  /\ UNCHANGED besideConcurrent

\* await continueConversation(conversationId, ...): a further chunk or the
\* consolidation request
CallContinue(r) ==
  /\ conc.call[r].pc = "continue"
  /\ \E ok \in BOOLEAN :
       IF ok
         THEN LET cid == conc.call[r].conversationId
                  rq == conc.server.sent[cid] + 1
                  c1 == IF /\ conc.call[r].strategy = "chunks"
                           /\ conc.call[r].i <= conc.call[r].n
                          THEN CallLogs(conc, r, "Process Chunk "
                                 \o ToString(conc.call[r].i))
                          ELSE conc
              IN  conc' = [c1 EXCEPT
                             !.server.sent[cid] = rq,
                             !.server.open[cid] = @ + 1,
                             !.server.continuedBy[cid] = @ \cup {r},
                             !.call[r].requestId = rq,
                             !.call[r].pc = "poll"]
         ELSE conc' = CallRejects(conc, r)
  /\ UNCHANGED besideConcurrent

\* the value the strategy handler returns, completed by handleLargeRequest
CallResult(c, r, answer) ==
  [set |-> TRUE, conversationId |-> c.call[r].conversationId,
   answer |-> answer, fileId |-> c.call[r].fileId,
   processingSteps |-> c.steps[stepsArray(r)]]

\* await this.pollForAnswer(conversationId, requestId, ...) and the code up
\* to the next send or the return
CallPoll(r) ==
  /\ conc.call[r].pc = "poll"
  /\ \E ok \in BOOLEAN :
       IF ok
         THEN LET me == conc.call[r]
                  answer == AnswerOf(me.conversationId, me.requestId)
                  c1 == [CallLogs(conc, r, "Poll for Answer") EXCEPT
                           !.server.open[me.conversationId] = @ - 1,
                           !.call[r].answer = answer]
                  last == \/ me.strategy \in {"direct", "file"}
                          \/ me.i > me.n
              IN  IF last
                    THEN conc' = [c1 EXCEPT
                                    !.call[r].result =
                                      CallResult(c1, r, answer),
                                    !.call[r].pc = "done"]
                    ELSE conc' = [c1 EXCEPT !.call[r].i = @ + 1,
                                            !.call[r].pc = "continue"]
         ELSE conc' = CallRejects(CallLogs(conc, r, "Poll for Answer"), r)
  /\ UNCHANGED besideConcurrent

ConcurrentNext ==
  \E r \in Calls :
    \/ CallStart(r)
    \/ CallUpload(r)
    \/ CallCreate(r)
    \/ CallContinue(r)
    \/ CallPoll(r)

ConcurrentSpec == ConcurrentInit /\ [][ConcurrentNext]_vars

(***************************************************************************)
(* The routes POST /v1/complete and POST /v1/complete/stream for a message *)
(* under the gate of 115,000 tokens: the branch of handleWithSmartRequest  *)
(* and of the stream route that talks to the backend itself.  Answer texts *)
(* are sequences of symbols; the tags <think> and </think> are one symbol  *)
(* each.  The redis calls are taken to succeed and no other request for    *)
(* the session runs, so both hget calls see the same mapping.              *)
(***************************************************************************)
RouteAnswers ==
  {<<>>, <<"p">>, <<"p", "q">>, <<"q", "p">>, <<"p", " ">>,
   <<"<think>", "q", "</think>", "p">>}

RouteStatuses == {"processing", "Finished", "completed"}

RouteResponses == [status : RouteStatuses, answer : RouteAnswers]

\* the ids of a create_conversation or continue_conversation response
NewConversation == 7
NewRequest == 9
\* the conversation a known session is mapped to
KnownConversation == 5

\* String.prototype.toLowerCase on the statuses
toLowerCase(st) == IF st = "Finished" THEN "finished" ELSE st

\* variant: any non-empty answer ends the polling
answerIsFinal_AnyStatus(r) == r.answer # <<>>

\* ["finished", "done", "completed"].includes(status) && ans
answerIsFinal(r) ==
  /\ toLowerCase(r.status) \in {"finished", "done", "completed"}
  /\ r.answer # <<>>

\* text.replace(/<open>[\s\S]*?<close>/g, ''): every block from an opening
\* tag to the nearest closing tag after it is removed
RECURSIVE RemoveBlocks(_, _, _)
RemoveBlocks(text, open, close) ==
  IF text = <<>> THEN <<>>
  ELSE LET closes == {j \in 2..Len(text) : text[j] = close}
       IN  IF text[1] = open /\ closes # {}
             THEN LET j == CHOOSE c \in closes : \A d \in closes : c <= d
                  IN  RemoveBlocks(SubSeq(text, j + 1, Len(text)), open, close)
             ELSE <<text[1]>> \o RemoveBlocks(Tail(text), open, close)

\* text.replace(/\n\s*\n\s*\n/g, '\n\n'): a whitespace run that starts
\* with a newline and holds three or more is cut down to two newlines, from
\* its first to its last newline
RECURSIVE CollapseNewlines(_)
CollapseNewlines(text) ==
  IF text = <<>> THEN <<>>
  ELSE LET nls == {j \in 1..RunEnd(text, 1) : text[j] = "\n"}
       IN  IF text[1] = "\n" /\ Cardinality(nls) >= 3
             THEN LET j == CHOOSE c \in nls : \A d \in nls : d <= c
                  IN  <<"\n", "\n">>
                        \o CollapseNewlines(SubSeq(text, j + 1, Len(text)))
             ELSE <<text[1]>> \o CollapseNewlines(Tail(text))

\* String.prototype.trim
RECURSIVE trim(_)
trim(text) ==
  IF text = <<>> THEN <<>>
  ELSE IF IsSpace(text[1]) THEN trim(Tail(text))
  ELSE IF IsSpace(text[Len(text)]) THEN trim(SubSeq(text, 1, Len(text) - 1))
  ELSE text

\* routes.cleanAiResponse
cleanAiResponse(text) ==
  IF text = <<>> THEN text
  ELSE trim(CollapseNewlines(
         RemoveBlocks(RemoveBlocks(text, "<think>", "</think>"),
                      "<thinking>", "</thinking>")))

\* variant: every delta repeats the whole answer
deltaOf_WholeAnswer(ans, sent) == ans

\* ans.slice(sent.length)
deltaOf(ans, sent) == SubSeq(ans, Len(sent) + 1, Len(ans))

\* ans starts with sent
Extends(ans, sent) ==
  Len(sent) <= Len(ans) /\ SubSeq(ans, 1, Len(sent)) = sent

RouteInit ==
  /\ NoRequest
  /\ psm = NoManager
  /\ sess = NoSession
  /\ svc = NoService
  /\ seg = NoSegmenter
  /\ sel = NoSelection
  /\ conc = NoConcurrent
  /\ \E k \in {"complete", "stream"}, c \in {0, KnownConversation} :
       route = [NoRoute EXCEPT !.kind = k, !.stored = c,
                               !.hadMapping = (c # 0)]

\* the /v1/complete reply of the catch block: 502 processing_failed
RouteFails(rt, message) ==
  IF rt.kind = "complete"
    THEN [rt EXCEPT !.pc = "replied",
                    !.reply = [status |-> 502, completion |-> <<>>,
                               error |-> message]]
    ELSE [rt EXCEPT !.pc = "replied", !.ended = TRUE,
                    !.events = Append(@, [type |-> "error", text |-> <<>>])]

\* the end of the polling: /v1/complete answers with the cleaned answer and
\* stores the mapping, the stream writes the done marker and ends
RouteAnswers200(rt, r) ==
  IF rt.kind = "complete"
    THEN [rt EXCEPT !.pc = "replied", !.stored = rt.conv,
                    !.reply = [status |-> 200,
                               completion |-> cleanAiResponse(r.answer),
                               error |-> "none"]]
    ELSE [rt EXCEPT !.pc = "replied", !.ended = TRUE,
                    !.events = Append(@, [type |-> "done", text |-> <<>>])]

\* the route up to the polling: hget, and createConversation and hset for an
\* unknown session, continueConversation for a known one
RouteSend ==
  /\ route.pc = "start"
  /\ \E outcome \in {"ok", "no_id", "rejects"} :
       IF route.stored = 0
         THEN route' =
                CASE outcome = "ok" ->
                       [route EXCEPT !.creates = @ + 1,
                                     !.conv = NewConversation,
                                     !.req = NewRequest,
                                     !.stored = NewConversation,
                                     !.pc = "poll"]
                  [] outcome = "no_id" ->
                       RouteFails([route EXCEPT !.creates = @ + 1],
                                  "toqan no conversation_id")
                  [] OTHER ->
                       RouteFails([route EXCEPT !.creates = @ + 1],
                                  "transport")
         ELSE /\ outcome # "no_id"
              /\ route' =
                   IF outcome = "ok"
                     THEN [route EXCEPT !.continues = @ + 1,
                                        !.conv = route.stored,
                                        !.req = NewRequest,
                                        !.pc = "poll"]
                     ELSE RouteFails([route EXCEPT !.continues = @ + 1],
                                     "transport")
  /\ UNCHANGED besideRoute

\* one iteration of the polling loop whose getAnswer resolves: pollAnswer
\* for /v1/complete, the loop of the stream route
RoutePollResolves ==
  /\ route.pc = "poll"
  /\ route.polls < MaxRoutePolls
  /\ \E r \in RouteResponses :
       LET ans == r.answer
           polled == [route EXCEPT !.polls = @ + 1, !.got = r]
           kept == IF route.kind = "complete"
                     THEN IF ~answerIsFinal(r) /\ ans # <<>>
                               /\ ans # route.last.answer
                            THEN [polled EXCEPT !.last = r]
                            ELSE polled
                     ELSE IF ans # <<>> /\ ans # route.sent
                            THEN [polled EXCEPT
                                    !.events =
                                      Append(@, [type |-> "delta",
                                                 text |-> deltaOf(ans,
                                                            route.sent)]),
                                    !.sent = ans,
                                    !.extending =
                                      @ /\ Extends(ans, route.sent)]
                            ELSE polled
       IN  route' = IF answerIsFinal(r)
                      THEN RouteAnswers200(
                             [kept EXCEPT !.final = r, !.finished = TRUE], r)
                      ELSE kept
  /\ UNCHANGED besideRoute

\* getAnswer rejects inside the loop: nothing catches it before the route
RoutePollRejects ==
  /\ route.pc = "poll"
  /\ route.polls < MaxRoutePolls
  /\ route' = RouteFails([route EXCEPT !.polls = @ + 1], "transport")
  /\ UNCHANGED besideRoute

\* the loop condition Date.now() < deadline fails, after one poll at least:
\* pollAnswer returns last, the stream loop just ends
RouteDeadline ==
  /\ route.pc = "poll"
  /\ route.polls >= 1
  /\ route' = RouteAnswers200(route, route.last)
  /\ UNCHANGED besideRoute

RouteNext ==
  \/ RouteSend
  \/ RoutePollResolves
  \/ RoutePollRejects
  \/ RouteDeadline

RouteSpec == RouteInit /\ [][RouteNext]_vars

(***************************************************************************)
(* Session creation on its own: the requests of one session id, each below *)
(* the token gate, running the statements that handleWithSmartRequest and  *)
(* the routes /v1/messages and /v1/complete/stream share: read the         *)
(* mapping, and when there is none take the lock key, read again, create   *)
(* the conversation, store the mapping and delete the lock key; otherwise  *)
(* continue the mapped conversation; then poll.  Every action is one       *)
(* request's code from one await to the next; redis executes each command  *)
(* atomically, and the lock key expires by itself (EX 10) while            *)
(* createConversation may take up to its 60 s transport timeout.           *)
(***************************************************************************)
\* ids the backend hands to request r
SessionConversation(r) == 100 + r
SessionRequestId(r) == 10 + r

SessionInit ==
  /\ NoRequest
  /\ psm = NoManager
  /\ route = NoRoute
  /\ conc = NoConcurrent
  /\ svc = NoService
  /\ seg = NoSegmenter
  /\ sel = NoSelection
  /\ \E m \in {0, KnownConversation} : sess = [NoSession EXCEPT !.map = m]

\* let toqanConv = await redis.hget(MAP_KEY, sessionId); if (!toqanConv)
SessionFirstRead(r) ==
  /\ sess.req[r].pc = "start"
  /\ sess' = [sess EXCEPT
       !.req[r].toqanConv = sess.map,
       !.req[r].firstRead = sess.map,
       !.req[r].pc = IF sess.map = 0 THEN "acquire" ELSE "continue"]
  /\ UNCHANGED besideSession

\* acquireLock: redis.set(key, "1", "EX", ttl, "NX") answers OK when the
\* key did not exist
acquireLock(lock) == ~lock

\* const locked = await acquireLock(lockKey); try {
SessionAcquire(r) ==
  /\ sess.req[r].pc = "acquire"
  /\ sess' = [sess EXCEPT
       !.lock = TRUE,
       !.req[r].locked = acquireLock(sess.lock),
       !.req[r].pc = "hget2"]
  /\ UNCHANGED besideSession

\* toqanConv = await redis.hget(MAP_KEY, sessionId); if (!toqanConv)
SessionSecondRead(r) ==
  /\ sess.req[r].pc = "hget2"
  /\ sess' = [sess EXCEPT
       !.req[r].toqanConv = sess.map,
       !.req[r].secondRead = sess.map,
       !.req[r].pc = IF sess.map = 0 THEN "create" ELSE "release"]
  /\ UNCHANGED besideSession

\* const createResp = await createConversation(user_message) and the
\* assignments after it; the call rejects, or answers without a
\* conversation_id, or answers with both ids
SessionCreate(r) ==
  /\ sess.req[r].pc = "create"
  /\ \E outcome \in {"ok", "no_conversation_id", "rejects"} :
       sess' = [sess EXCEPT
         !.creates = @ + 1,
         !.req[r].sends = @ + 1,
         !.req[r].toqanConv =
            IF outcome = "ok" THEN SessionConversation(r)
            ELSE IF outcome = "rejects" THEN @ ELSE 0,
         !.req[r].request_id =
            IF outcome = "rejects" THEN @ ELSE SessionRequestId(r),
         !.req[r].throws = (outcome # "ok"),
         !.req[r].pc = IF outcome = "ok" THEN "hset" ELSE "release"]
  /\ UNCHANGED besideSession

\* await redis.hset(MAP_KEY, sessionId, toqanConv)
SessionStore(r) ==
  /\ sess.req[r].pc = "hset"
  /\ sess' = [sess EXCEPT
       !.map = sess.req[r].toqanConv,
       !.mapped = @ \cup {sess.req[r].toqanConv},
       !.req[r].pc = "setmeta"]
  /\ UNCHANGED besideSession

\* await redis.set(META_PREFIX + toqanConv, ...)
SessionMeta(r) ==
  /\ sess.req[r].pc = "setmeta"
  /\ sess' = [sess EXCEPT !.req[r].pc = "release"]
  /\ UNCHANGED besideSession

\* finally { if (locked) await releaseLock(lockKey) }: redis.del(key)
SessionRelease(r) ==
  /\ sess.req[r].pc = "release"
  /\ sess' = [sess EXCEPT
       !.lock = IF sess.req[r].locked THEN FALSE ELSE @,
       !.req[r].pc = IF sess.req[r].throws THEN "failed" ELSE "poll"]
  /\ UNCHANGED besideSession

\* else { const cont = await continueConversation(toqanConv, user_message);
\* request_id = cont.request_id }
SessionContinue(r) ==
  /\ sess.req[r].pc = "continue"
  /\ \E ok \in BOOLEAN :
       sess' = [sess EXCEPT
         !.req[r].sends = @ + 1,
         !.req[r].request_id = IF ok THEN SessionRequestId(r) ELSE @,
         !.req[r].pc = IF ok THEN "poll" ELSE "failed"]
  /\ UNCHANGED besideSession

\* const final = await pollAnswer(toqanConv, request_id)
SessionPoll(r) ==
  /\ sess.req[r].pc = "poll"
  /\ sess' = [sess EXCEPT
       !.req[r].polled = sess.req[r].request_id,
       !.req[r].polledConv = sess.req[r].toqanConv,
       !.req[r].pc = "done"]
  /\ UNCHANGED besideSession

\* the lock key reaches its time to live and redis removes it
SessionLockExpires ==
  /\ sess.lock
  /\ sess' = [sess EXCEPT !.lock = FALSE]
  /\ UNCHANGED besideSession

SessionNext ==
  \/ \E r \in Requests : SessionFirstRead(r)
  \/ \E r \in Requests : SessionAcquire(r)
  \/ \E r \in Requests : SessionSecondRead(r)
  \/ \E r \in Requests : SessionCreate(r)
  \/ \E r \in Requests : SessionStore(r)
  \/ \E r \in Requests : SessionMeta(r)
  \/ \E r \in Requests : SessionRelease(r)
  \/ \E r \in Requests : SessionContinue(r)
  \/ \E r \in Requests : SessionPoll(r)
  \/ SessionLockExpires

SessionSpec == SessionInit /\ [][SessionNext]_vars

(***************************************************************************)
(* The ProgressStreamManager on its own: one manager, called by its owner  *)
(* in any order, over a stream whose writes may throw.  The methods are    *)
(* synchronous, so every call is one step; between calls time may pass.    *)
(* A flush is given the position of the write that throws (0: none).       *)
(***************************************************************************)
\* the lines reply.write is given
ProgressLine(update) == [kind |-> "progress", update |-> update]
DeltaLine == [kind |-> "delta", update |-> <<>>]
DoneLine == [kind |-> "done", update |-> <<>>]

ManagerOptionSets ==
  [updateInterval : {0, DefaultUpdateInterval}, bufferSize : 1..MaxBufferSize]

ManagerInit ==
  /\ NoRequest
  /\ route = NoRoute
  /\ conc = NoConcurrent
  /\ svc = NoService
  /\ seg = NoSegmenter
  /\ sel = NoSelection
  /\ sess = NoSession
  /\ \E o \in ManagerOptionSets :
       psm = [NoManager EXCEPT !.options = o, !.now = o.updateInterval]

\* variant: the buffer is kept after it has been written
flushBuffer_KeepsBuffer(m, failAt) ==
  IF m.closed \/ Len(m.messageBuffer) = 0 THEN m
  ELSE IF failAt \in 1..Len(m.messageBuffer)
    THEN [m EXCEPT
            !.stream = @ \o [i \in 1..(failAt - 1) |->
                               ProgressLine(m.messageBuffer[i])],
            !.closed = TRUE, !.closedBy = "write", !.writeFailed = TRUE]
    ELSE [m EXCEPT
            !.stream = @ \o [i \in 1..Len(m.messageBuffer) |->
                               ProgressLine(m.messageBuffer[i])],
            !.lastUpdateTime = m.now]

\* ProgressStreamManager.flushBuffer; the write of buffered update number
\* failAt throws (no write throws when failAt is not a position)
flushBuffer(m, failAt) ==
  IF m.closed \/ Len(m.messageBuffer) = 0 THEN m
  ELSE IF failAt \in 1..Len(m.messageBuffer)
    THEN [m EXCEPT
            !.stream = @ \o [i \in 1..(failAt - 1) |->
                               ProgressLine(m.messageBuffer[i])],
            !.closed = TRUE, !.closedBy = "write", !.writeFailed = TRUE]
    ELSE [m EXCEPT
            !.stream = @ \o [i \in 1..Len(m.messageBuffer) |->
                               ProgressLine(m.messageBuffer[i])],
            !.messageBuffer = <<>>,
            !.lastUpdateTime = m.now]

\* sendProgress: const shouldSend, evaluated after the push
shouldSend(m, type) ==
  \/ m.now - m.lastUpdateTime >= m.options.updateInterval
  \/ Len(m.messageBuffer) >= m.options.bufferSize
  \/ type = "error"
  \/ type = "complete"

\* ProgressStreamManager.sendProgress(update); the update is known by its
\* number among the updates passed, its type and its timestamp
streamSendProgress(m, type, failAt) ==
  LET fullUpdate == [seq |-> m.passed + 1, type |-> type, timestamp |-> m.now]
      counted == [m EXCEPT !.passed = @ + 1]
      pushed == [counted EXCEPT
                   !.messageBuffer = Append(@, fullUpdate),
                   !.accepted = Append(@, fullUpdate)]
  IN  IF m.closed THEN counted
      ELSE IF shouldSend(pushed, type) THEN flushBuffer(pushed, failAt)
      ELSE pushed

\* ProgressStreamManager.sendError
sendError(m, failAt) == streamSendProgress(m, "error", failAt)

\* ProgressStreamManager.sendComplete: sendProgress, then flushBuffer
sendComplete(m, failAt, failAgain) ==
  flushBuffer(streamSendProgress(m, "complete", failAt), failAgain)

\* variant: the delta is written whether the manager is closed or not
sendDelta_Unguarded(m, ok) ==
  IF ok THEN [m EXCEPT !.stream = Append(@, DeltaLine)]
  ELSE [m EXCEPT !.closed = TRUE, !.writeFailed = TRUE,
                 !.closedBy = IF m.closed THEN @ ELSE "write"]

\* ProgressStreamManager.sendDelta; ok: the write does not throw
sendDelta(m, ok) ==
  IF m.closed THEN m
  ELSE IF ok THEN [m EXCEPT !.stream = Append(@, DeltaLine)]
  ELSE [m EXCEPT !.closed = TRUE, !.closedBy = "write", !.writeFailed = TRUE]

\* ProgressStreamManager.sendDone; a write that throws is only logged
sendDone(m, ok) ==
  IF m.closed THEN m
  ELSE IF ok THEN [m EXCEPT !.stream = Append(@, DoneLine),
                            !.closed = TRUE, !.closedBy = "sendDone"]
  ELSE [m EXCEPT !.writeFailed = TRUE]

\* ProgressStreamManager.close
close(m, failAt) ==
  IF ~m.closed
    THEN LET flushed == flushBuffer(m, failAt)
         IN  [flushed EXCEPT
                !.closed = TRUE,
                !.closedBy = IF flushed.closed THEN @ ELSE "close"]
    ELSE m

\* a call on the manager returns and leaves the manager as m
ManagerCalled(m) ==
  /\ psm' = [m EXCEPT !.calls = @ + 1,
                      !.lateCalls = IF psm.closed THEN @ + 1 ELSE @]
  /\ UNCHANGED besideManager

\* positions a flush of this call can fail at (0: no write throws)
FailPositions == 0..(Len(psm.messageBuffer) + 1)

\* sendProgress called directly, or through sendStatus,
\* sendChunkingProgress or sendFileUploadProgress
SendProgress ==
  /\ psm.calls < MaxManagerCalls
  /\ \E type \in {"progress", "status"}, failAt \in FailPositions :
       ManagerCalled(streamSendProgress(psm, type, failAt))

SendError ==
  /\ psm.calls < MaxManagerCalls
  /\ \E failAt \in FailPositions : ManagerCalled(sendError(psm, failAt))

SendComplete ==
  /\ psm.calls < MaxManagerCalls
  /\ \E failAt \in FailPositions, failAgain \in FailPositions :
       ManagerCalled(sendComplete(psm, failAt, failAgain))

SendDelta ==
  /\ psm.calls < MaxManagerCalls
  /\ \E ok \in BOOLEAN : ManagerCalled(sendDelta(psm, ok))

SendDone ==
  /\ psm.calls < MaxManagerCalls
  /\ \E ok \in BOOLEAN : ManagerCalled(sendDone(psm, ok))

Close ==
  /\ psm.calls < MaxManagerCalls
  /\ \E failAt \in FailPositions : ManagerCalled(close(psm, failAt))

\* time passes until the update interval has elapsed since the last flush
IntervalElapses ==
  /\ psm.now - psm.lastUpdateTime < psm.options.updateInterval
  /\ psm' = [psm EXCEPT !.now = psm.lastUpdateTime + psm.options.updateInterval]
  /\ UNCHANGED besideManager

ManagerNext ==
  \/ SendProgress
  \/ SendError
  \/ SendComplete
  \/ SendDelta
  \/ SendDone
  \/ Close
  \/ IntervalElapses

ManagerSpec == ManagerInit /\ [][ManagerNext]_vars

(***************************************************************************)
(* Vocabulary of the properties.                                           *)
(***************************************************************************)
IsSend(e) == e.type = "send"
IsPoll(e) == e.type = "poll"
IsUpload(e) == e.type = "upload"

Sends == SelectSeq(trace, IsSend)
Uploads == SelectSeq(trace, IsUpload)
IsChunkSend(e) == IsSend(e) /\ e.msg.kind = "chunk"
ChunkSends == SelectSeq(trace, IsChunkSend)
IsCreate(e) == IsSend(e) /\ e.op = "create"
Creates == SelectSeq(trace, IsCreate)

\* event i is a successful send and event i+1 the successful poll of the
\* exchange it opened
Exchange(i) ==
  /\ IsSend(trace[i]) /\ trace[i].ok
  /\ IsPoll(trace[i + 1]) /\ trace[i + 1].ok
  /\ trace[i + 1].conv = trace[i].rconv
  /\ trace[i + 1].req = trace[i].rreq

\* C1: chunked strategy with every backend call succeeding and N >= 1
\* segments: the calls are exactly one createConversation with segment 0,
\* N-1 continueConversation with segments 1..N-1 and one consolidation
\* continueConversation, each followed by its poll; the answer returned is
\* the consolidation poll's and chunksProcessed is N.
C1_ChunkedCalls ==
  (pc = "done" /\ strategy = "chunks") =>
    LET n == Len(loc.chunks)
    IN  /\ n >= 1
        /\ Len(trace) = 2 * (n + 1)
        /\ \A k \in 1..(n + 1) : Exchange(2 * k - 1)
        /\ \A k \in 1..n :
             /\ trace[2 * k - 1].op = IF k = 1 THEN "create" ELSE "continue"
             /\ trace[2 * k - 1].msg.kind = "chunk"
             /\ trace[2 * k - 1].msg.index = k - 1
             /\ trace[2 * k - 1].msg.total = n
        /\ trace[2 * n + 1].op = "continue"
        /\ trace[2 * n + 1].msg.kind = "consolidate"
        /\ result.answer = trace[2 * n + 2].answer
        /\ result.chunksProcessed = n

C1_Witness ==
  /\ pc = "done" /\ strategy = "chunks"
  /\ result.chunksProcessed >= 2
  /\ Len(Sends) = result.chunksProcessed + 1

\* C2: the sends of one request are sequential on one conversation: a send
\* is only ever followed by the successful poll of its own exchange, so at
\* most one exchange is outstanding; segments go out in ordinal order, the
\* consolidation after all of them; every continueConversation is on the
\* conversation id the opening createConversation returned.
C2_SequentialSends ==
  /\ \A i \in 1..(Len(trace) - 1) :
       IsSend(trace[i]) =>
         /\ trace[i].ok
         /\ IsPoll(trace[i + 1])
         /\ trace[i + 1].conv = trace[i].rconv
         /\ trace[i + 1].req = trace[i].rreq
         /\ (i + 1 < Len(trace)) => trace[i + 1].ok
  /\ (Len(trace) > 0 /\ IsSend(trace[Len(trace)]) /\ trace[Len(trace)].ok)
       => (pc = "poll" /\ poll.state = "running"
           /\ poll.conv = trace[Len(trace)].rconv
           /\ poll.req = trace[Len(trace)].rreq)
  /\ pc = "poll" => (Len(trace) > 0 /\ IsSend(trace[Len(trace)]))
  /\ \A j \in 1..Len(ChunkSends) : ChunkSends[j].msg.index = j - 1
  /\ \A i \in 1..Len(trace) :
       (IsSend(trace[i])
          /\ trace[i].msg.kind \in {"consolidate", "hybrid_consolidate"})
         => /\ Len(ChunkSends) = Len(loc.chunks)
            /\ \A j \in (i + 1)..Len(trace) : ~IsSend(trace[j])
  /\ Len(Creates) <= 1
  /\ \A i \in 1..Len(trace) :
       (IsSend(trace[i]) /\ trace[i].op = "continue")
         => /\ Len(Creates) = 1
            /\ Creates[1].ok
            /\ trace[i].conv = Creates[1].rconv
            /\ IsCreate(trace[1]) \/ IsUpload(trace[1])

C2_Witness ==
  /\ pc = "done" /\ strategy = "hybrid"
  /\ Len(ChunkSends) >= 2
  /\ Len(Sends) = Len(ChunkSends) + 2

\* C3: a poll that meets only not-finished responses and then a finished
\* one returns after exactly N+1 getAnswer calls, N < maxAttempts, with that
\* answer; a poll that never meets a finished response and no transport
\* error is still running before maxAttempts calls, and ends after exactly
\* maxAttempts calls with the timeout error, which carries maxAttempts.
C3_PollCallCounts ==
  poll.errors = 0 =>
    /\ poll.state = "running" =>
         /\ poll.calls = poll.notFinished
         /\ poll.calls < poll.maxAttempts
    /\ poll.state = "ok" =>
         /\ poll.calls = poll.notFinished + 1
         /\ poll.notFinished < poll.maxAttempts
         /\ poll.returned = poll.resp.answer
    /\ poll.state \notin {"none", "running", "ok"} =>
         /\ poll.state = "timeout"
         /\ poll.calls = poll.maxAttempts
         /\ pc = "failed"
         /\ error.kind = "Timeout"
         /\ error.attempts = poll.maxAttempts

C3_Witness ==
  /\ poll.state = "timeout"
  /\ poll.errors = 0
  /\ poll.calls = poll.maxAttempts
  /\ poll.maxAttempts >= 2


\* statuses the backend documents as final
FinalStatuses == {"finished", "done", "completed"}

\* C4: the poller succeeds exactly on a response whose status is finished,
\* done or completed and whose answer is non-empty, and returns that answer.
C4_SuccessCriterion ==
  (poll.calls > 0 /\ ~poll.lastThrew) =>
    /\ (poll.resp.status \in FinalStatuses /\ poll.resp.answer # "")
         <=> poll.state = "ok"
    /\ poll.state = "ok" => poll.returned = poll.resp.answer

\* C5 as stated: a transport error never ends a poll that has attempts
\* left, and a poll that ends without an answer always ends with the
\* timeout error carrying the attempt count.
C5_AlwaysTimeoutError ==
  /\ (poll.state = "running" /\ poll.calls > 0) =>
       (poll.attempts = poll.calls /\ poll.attempts < poll.maxAttempts)
  /\ poll.state \in {"timeout", "error"} =>
       /\ poll.calls = poll.maxAttempts
       /\ error.kind = "Timeout"
       /\ error.attempts = poll.maxAttempts

\* C5 amended: every failed getAnswer, thrown or not finished, consumes one
\* attempt and the poll goes on while attempts remain, so that a finished
\* answer after a transport error is returned; a poll that ends without an
\* answer ends after exactly maxAttempts calls, with the timeout error
\* carrying maxAttempts when the last call returned a not-finished response
\* and with the transport error of the last call when that call threw.
C5_ErrorTolerance ==
  /\ (poll.state = "running" /\ poll.calls > 0) =>
       (poll.attempts = poll.calls /\ poll.attempts < poll.maxAttempts)
  /\ poll.state = "ok" => poll.calls = poll.notFinished + poll.errors + 1
  /\ poll.state \in {"timeout", "error"} =>
       /\ poll.calls = poll.maxAttempts
       /\ pc = "failed"
       /\ IF poll.lastThrew
            THEN poll.state = "error" /\ error.kind = "Transport"
            ELSE /\ poll.state = "timeout"
                 /\ error.kind = "Timeout"
                 /\ error.attempts = poll.maxAttempts

C5_Witness ==
  /\ poll.state = "error"
  /\ poll.errors >= 2
  /\ error.kind = "Transport"

\* C6: direct strategy: the only backend call besides getAnswer is one
\* createConversation with the raw message and no file; the result carries
\* the finished response's answer verbatim and the ids the create returned.
C6_Direct ==
  strategy = "direct" =>
    /\ Len(Uploads) = 0
    /\ Len(Sends) <= 1
    /\ \A i \in 1..Len(trace) :
         IsSend(trace[i]) =>
           /\ i = 1
           /\ trace[i].op = "create"
           /\ trace[i].msg.kind = "raw"
           /\ trace[i].files = {}
    /\ pc = "done" =>
         /\ Len(trace) = 2
         /\ Exchange(1)
         /\ poll.resp.status = "finished"
         /\ result.answer = poll.resp.answer
         /\ result.answer # ""
         /\ result.conversationId = trace[1].rconv
         /\ result.requestId = trace[1].rreq
         /\ result.strategy = "direct"

C6_Witness ==
  /\ pc = "done" /\ strategy = "direct"
  /\ result.answer = "YYYYY"
  /\ poll.calls >= 2

\* C7: file strategy whose first uploadFile call succeeds: that is the only
\* uploadFile call, it comes first, the only other send is one
\* createConversation referencing exactly the returned file id, and the
\* result carries that file id.
C7_FileCalls ==
  (strategy = "file" /\ Len(trace) >= 1 /\ IsUpload(trace[1]) /\ trace[1].ok)
    =>
    /\ Len(Uploads) = 1
    /\ Len(Sends) <= 1
    /\ \A i \in 1..Len(trace) :
         IsSend(trace[i]) =>
           /\ i = 2
           /\ trace[i].op = "create"
           /\ trace[i].files = {trace[1].fileId}
    /\ pc = "done" =>
         /\ Len(trace) = 3
         /\ Exchange(2)
         /\ result.fileId = trace[1].fileId
         /\ result.strategy = "file"

C7_Witness ==
  /\ pc = "done" /\ strategy = "file"
  /\ IsUpload(trace[1]) /\ trace[1].ok
  /\ result.fileId = trace[1].fileId

\* the send whose exchange the running (or last) poll is about
PolledSend ==
  LET i == CHOOSE j \in 1..Len(Sends) : Sends[j].ok /\ Sends[j].rreq = poll.req
  IN  Sends[i]

\* C8: the poll after the createConversation that references a file makes
\* at most 2 * maxPollAttempts getAnswer calls, every other poll at most
\* maxPollAttempts; a poll that times out has made exactly that many.
C8_PollBudgets ==
  poll.state # "none" =>
    LET budget == IF PolledSend.files # {} THEN 2 * MaxPollAttempts
                  ELSE MaxPollAttempts
    IN  /\ poll.calls <= budget
        /\ poll.state = "timeout" => poll.calls = budget
        /\ (PolledSend.files # {}) <=> poll.ctx = "file"

C8_Witness ==
  /\ poll.ctx = "file"
  /\ poll.state = "timeout"
  /\ poll.calls = 2 * MaxPollAttempts

FailedStep(e) ==
  \/ IsSend(e) /\ ~e.ok
  \/ IsPoll(e) /\ ~e.ok
  \/ IsUpload(e) /\ ~e.ok /\ e.attempt >= DefaultMaxRetries

\* C10: a failed step is the last backend call of the request, the request
\* is rejected and no result is ever returned after it; a request that
\* returned a result had no failed step.
C10_FailureIsFatal ==
  /\ \A i \in 1..Len(trace) :
       FailedStep(trace[i]) =>
         /\ i = Len(trace)
         /\ pc = "failed"
         /\ ~result.set
         /\ error.kind # "none"
  /\ pc = "done" => (result.set /\ error.kind = "none")
  /\ pc = "failed" => (~result.set /\ error.kind # "none")

C10_Witness ==
  /\ pc = "failed"
  /\ poll.ctx \in {"final", "hybrid_final"}
  /\ poll.state \in {"timeout", "error"}
  /\ Len(ChunkSends) >= 2

\* the backend calls each strategy handler can make
StrategyCalls(st) ==
  CASE st = "direct" -> {"raw"}
    [] st = "chunks" -> {"chunk", "consolidate"}
    [] st = "file" -> {"upload", "file_instruction"}
    [] st = "hybrid" -> {"upload", "file_instruction", "chunk",
                         "hybrid_consolidate"}
    [] OTHER -> {}

CallKind(e) ==
  IF IsUpload(e) THEN "upload" ELSE IF IsSend(e) THEN e.msg.kind ELSE "poll"

\* C11: the strategy is decided once, before any backend call: it is the
\* explicit override when one is given and the one derived from the token
\* estimate otherwise; it never changes afterwards; the result reports
\* exactly that strategy; every backend call of the request, also the ones
\* before a failure, belongs to that strategy.
C11_StrategyFixed ==
  /\ pc = "start" => (strategy = "none" /\ trace = <<>>)
  /\ pc # "start" =>
       /\ optStrategy # "auto" => strategy = optStrategy
       /\ optStrategy = "auto" => strategy = getRecommendedStrategy(msg.tokens)
  /\ result.set => result.strategy = strategy
  /\ \A i \in 1..Len(trace) :
       ~IsPoll(trace[i]) => CallKind(trace[i]) \in StrategyCalls(strategy)

C11_Witness ==
  /\ pc = "done"
  /\ optStrategy = "hybrid" /\ getRecommendedStrategy(msg.tokens) = "file"
  /\ result.strategy = "hybrid"
  /\ Len(ChunkSends) >= 1

KnownStrategies == {"direct", "chunks", "file", "hybrid"}

\* C12: an override that is neither 'auto' nor one of the four strategies
\* is never replaced by a default: the request can only end with the
\* unknown-strategy error, no result is returned, and no createConversation,
\* continueConversation, uploadFile or getAnswer call is made.
C12_UnknownStrategyRejected ==
  optStrategy \notin KnownStrategies \cup {"auto"} =>
    /\ pc \in {"start", "dispatch", "failed"}
    /\ pc # "start" => strategy = optStrategy
    /\ pc = "failed" => error.kind = "UnknownStrategy"
    /\ ~result.set
    /\ trace = <<>>
    /\ poll.calls = 0
    /\ upl.calls = 0

C12_Witness ==
  /\ optStrategy \notin KnownStrategies \cup {"auto"}
  /\ pc = "failed"
  /\ error.kind = "UnknownStrategy"
  /\ msg.tokens > FileLimit

\* the audit log the caller of handleLargeRequest holds once the request
\* has finished: the result's processingSteps, or whatever log the
\* rejection value carries
CallerLog ==
  IF pc = "done" THEN result.processingSteps
  ELSE IF "processingSteps" \in DOMAIN thrownError(error)
         THEN thrownError(error).processingSteps
         ELSE <<>>

\* C13: the audit log is always delivered to the caller together with the
\* outcome: on success result.processingSteps is the complete log, on
\* failure the caller still receives the log, with the steps of the
\* segments that succeeded.
C13_LogDelivered ==
  pc \in {"done", "failed"} => CallerLog = steps

StepsNamed(names) == SelectSeq(steps, LAMBDA st : st.step \in names)

CallSteps ==
  {"Create Conversation", "Create Conversation with File",
   "Final Consolidation", "Hybrid Processing"}
    \cup {"Process Chunk " \o ToString(k) : k \in 1..Len(loc.chunks)}

\* C14: when a request returns its result the audit log holds exactly one
\* step for the strategy selection, exactly one for each createConversation
\* and continueConversation call, exactly one for each poll and exactly one
\* for each upload performed.
C14_AuditComplete ==
  pc = "done" =>
    /\ Len(StepsNamed({"Strategy Selection"})) = 1
    /\ Len(StepsNamed(CallSteps)) = Len(Sends)
    /\ Len(StepsNamed({"Poll for Answer"})) = Len(SelectSeq(trace, IsPoll))
    /\ Len(StepsNamed({"File Upload"})) = (IF upl.calls > 0 THEN 1 ELSE 0)

\* the steps a rejection message identifies, read generously: a prefix
\* that equals a step's name, 'File upload failed' and the empty-content
\* text for the upload, the no-chunks text for the chunking, the timeout
\* text for the poll, the unknown-strategy text for the selection
StepsNamedBy(e) ==
  ({e.wraps[j] : j \in 1..Len(e.wraps)}
     \cap {"Direct Request", "Chunked Request", "File Request",
            "Create Conversation", "Create Conversation with File",
            "Poll for Answer", "File Upload", "Final Consolidation",
            "Hybrid Processing"})
    \cup (IF \E j \in 1..Len(e.wraps) : e.wraps[j] = "File upload failed"
            THEN {"File Upload"} ELSE {})
    \cup (IF e.kind = "EmptyContent" THEN {"File Upload"} ELSE {})
    \cup (IF e.kind = "NoChunks" THEN {"Text Chunking"} ELSE {})
    \cup (IF e.kind = "Timeout" THEN {"Poll for Answer"} ELSE {})
    \cup (IF e.kind = "UnknownStrategy" THEN {"Strategy Selection"} ELSE {})

\* C15: when a step fails the log ends with a step of success = false that
\* carries the error's message, and the error raised to the caller names
\* the step that failed.
C15_FailedStepTagged ==
  pc = "failed" =>
    /\ Len(steps) > 0
    /\ ~steps[Len(steps)].success
    /\ Wrap(steps[Len(steps)].error, "Smart request handling failed") = error
    /\ StepsNamedBy(error) # {}

\* C16: every error raised by handleLargeRequest, and the error response
\* built from it, includes the strategy in effect and at least one partial
\* token count (the input estimate is known from the first line on).
C16_ErrorContext ==
  pc = "failed" =>
    /\ \/ /\ "strategy" \in DOMAIN thrownError(error)
          /\ thrownError(error).strategy = strategy
       \/ error.kind = "UnknownStrategy"
    /\ errorResponse(error).strategy_used = strategy
    /\ \E f \in {"totalInputTokens", "totalResponseTokens", "tokens"} :
         f \in DOMAIN thrownError(error) \cup DOMAIN errorResponse(error)

RECURSIVE SumSeq(_)
SumSeq(q) == IF q = <<>> THEN 0 ELSE Head(q) + SumSeq(Tail(q))

UploadEnded == svc.pc \in {"done", "failed"}

\* C17: an upload whose transport fails twice and then succeeds (maxRetries
\* >= 3) succeeds on the third transport call after a total backoff of
\* 3000 ms (1000 + 2000); in general it succeeds on the call after its last
\* failure and never gives up before maxRetries calls; when the transport
\* always fails the upload-failed error is raised after exactly maxRetries
\* transport calls.
C17_UploadRetries ==
  /\ svc.pc = "done" =>
       /\ svc.calls = svc.failed + 1
       /\ svc.calls <= svc.maxRetries
       /\ Len(svc.waits) = svc.failed
       /\ svc.failed = 2 =>
            (svc.calls = 3 /\ svc.maxRetries >= 3 /\ SumSeq(svc.waits) = 3000)
  /\ svc.pc \in {"transport", "backoff"} =>
       (svc.calls = svc.failed /\ svc.calls < svc.maxRetries)
  /\ (svc.pc = "failed" /\ svc.tempWritten) =>
       /\ svc.error.kind = "UploadFailed"
       /\ svc.error.attempts = svc.maxRetries
       /\ svc.calls = svc.maxRetries
       /\ svc.failed = svc.maxRetries

C17_Witness ==
  /\ svc.pc = "done"
  /\ svc.failed = 2 /\ svc.calls = 3
  /\ svc.waits = <<1000, 2000>>
  /\ svc.maxRetries > 3

C19_EmptyContent ==
  (svc.content.len = 0 \/ svc.content.firstInk = 0) =>
    /\ svc.pc \in {"idle", "failed"}
    /\ svc.pc = "failed" => svc.error = emptyContentError
    /\ ~svc.tempWritten /\ ~svc.tempExists
    /\ svc.calls = 0
    /\ svc.uploadedFiles = svc.before
    /\ ~svc.result.set

C19_Witness ==
  /\ svc.pc = "failed"
  /\ svc.content.len > 0 /\ svc.content.firstInk = 0
  /\ svc.before # {}
  /\ svc.error.kind = "EmptyContent"

SegmenterFits ==
  /\ seg.pc = "done"
  /\ smartEstimateTokens(seg.text) <= seg.options.maxTokensPerChunk

OneSegmentOfText ==
  /\ Len(seg.chunks) = 1
  /\ seg.chunks[1].content = seg.text
  /\ seg.chunks[1].index = 0
  /\ seg.chunks[1].totalChunks = 1
  /\ seg.chunks[1].isFirst /\ seg.chunks[1].isLast

\* C20, as stated: for every text whose estimate is at most the ceiling
\* splitText returns exactly one segment, whose content is the text, with
\* index 0, totalChunks 1 and isFirst = isLast = true.
C20_FitsInOneSegment == SegmenterFits => OneSegmentOfText

\* C20, amended: the same for every text that is neither empty nor
\* whitespace-only; an empty or whitespace-only text, whose estimate (0 or
\* 1) is within every ceiling, yields no segment at all.
C20_NonBlankFitsInOneSegment ==
  SegmenterFits =>
    IF Len(seg.text) = 0 \/ isBlankText(seg.text)
      THEN seg.chunks = <<>>
      ELSE OneSegmentOfText

C20_Witness ==
  /\ SegmenterFits
  /\ ~isBlankText(seg.text)
  /\ smartEstimateTokens(seg.text) = seg.options.maxTokensPerChunk
  /\ smartEstimateTokens(seg.text) > 1
  /\ seg.options.chunkPrefix # <<>>
  /\ Len(seg.chunks) = 1

\* the text handed to splitText has no character other than whitespace
SegmenterTextBlank == \A i \in 1..Len(seg.text) : seg.text[i] \in {" ", "\n"}

\* C21: splitText on an empty or whitespace-only text returns the empty
\* sequence of segments, in every boundary mode and under every ceiling,
\* also when the whitespace alone estimates above the ceiling.
C21_BlankGivesNoSegment ==
  (seg.pc = "done" /\ SegmenterTextBlank) => seg.chunks = <<>>

C21_Witness ==
  /\ seg.pc = "done"
  /\ SegmenterTextBlank
  /\ Len(seg.text) > 4
  /\ smartEstimateTokens(seg.text) > seg.options.maxTokensPerChunk
  /\ seg.options.splitStrategy = "character"
  /\ seg.chunks = <<>>

\* the separator groupIntoBuckets joins the units of the mode with
SeparatorOf(mode) == IF mode = "paragraph" THEN <<"\n", "\n">> ELSE <<" ">>

\* splitText went through greedy bucketing
Bucketed ==
  /\ seg.pc = "done"
  /\ seg.options.splitStrategy \in {"paragraph", "sentence", "word"}
  /\ ~SegmenterTextBlank
  /\ smartEstimateTokens(seg.text) > seg.options.maxTokensPerChunk

\* segment k without the prefix and suffix literals
Body(k) ==
  SubSeq(seg.chunks[k].content, Len(seg.options.chunkPrefix) + 1,
         Len(seg.chunks[k].content) - Len(seg.options.chunkSuffix))

\* the overlap text injected at the head of segment k
OverlapOf(k) ==
  IF k > 1 /\ seg.options.overlapTokens > 0
    THEN extractOverlap(Body(k - 1), seg.options.overlapTokens)
    ELSE [some |-> FALSE, text |-> <<>>]

\* what the injected overlap occupies at the head of segment k
OverlapHead(k) ==
  IF OverlapOf(k).some
    THEN OverlapOf(k).text \o SeparatorOf(seg.options.splitStrategy)
    ELSE <<>>

\* segment k without prefix, suffix and injected overlap: its own units
OwnText(k) == SubSeq(Body(k), Len(OverlapHead(k)) + 1, Len(Body(k)))

C23_SegmentOrdinals ==
  seg.pc = "done" =>
    \A k \in 1..Len(seg.chunks) :
      /\ seg.chunks[k].index = k - 1
      /\ seg.chunks[k].totalChunks = Len(seg.chunks)
      /\ seg.chunks[k].isFirst <=> (k = 1)
      /\ seg.chunks[k].isLast <=> (k = Len(seg.chunks))

C23_Witness ==
  /\ seg.pc = "done"
  /\ Len(seg.chunks) >= 3
  /\ seg.chunks[2].index = 1
  /\ ~seg.chunks[2].isFirst /\ ~seg.chunks[2].isLast
  /\ seg.chunks[3].totalChunks = Len(seg.chunks)

\* the units greedy bucketing works on
UnitsOfText == split(seg.text, seg.options.splitStrategy)

\* segment k is one atomic unit, larger than the ceiling by itself, passed
\* through without overlap text
SingleOversizedUnit(k) ==
  /\ \E i \in 1..Len(UnitsOfText) : UnitsOfText[i] = OwnText(k)
  /\ smartEstimateTokens(OwnText(k)) > seg.options.maxTokensPerChunk
  /\ ~OverlapOf(k).some

\* C24: every segment of greedy bucketing holds at most maxTokensPerChunk
\* tokens for its own units, separators and injected overlap, whether
\* counted as the segment's recorded token sum or as the estimate of its
\* text, except a segment that is a single atomic unit larger than the
\* ceiling by itself, and that unit carries no overlap text.
C24_PerSegmentCeiling ==
  Bucketed =>
    \A k \in 1..Len(seg.chunks) :
      \/ seg.chunks[k].tokens <= seg.options.maxTokensPerChunk
      \/ smartEstimateTokens(Body(k)) <= seg.options.maxTokensPerChunk
      \/ SingleOversizedUnit(k)

\* the order direct, chunked, file, hybrid of the strategies
StrategyRank(s) ==
  CASE s = "direct" -> 1 [] s = "chunks" -> 2 [] s = "file" -> 3
    [] s = "hybrid" -> 4 [] OTHER -> 0

\* C25: the strategy selected from an estimate e >= 0 is direct exactly for
\* e <= 115000, chunked exactly for 115000 < e <= 200000, file exactly for
\* 200000 < e <= 500000 and hybrid exactly for e > 500000, so one strategy
\* is selected for every estimate; and a larger estimate never selects an
\* earlier strategy.
C25_StrategyIntervals ==
  /\ \A i \in 1..2 :
       sel.strategy[i] # "none" =>
         LET e == sel.tokens[i]
             s == sel.strategy[i]
         IN  /\ e >= 0
             /\ s \in {"direct", "chunks", "file", "hybrid"}
             /\ (s = "direct") <=> (e <= 115000)
             /\ (s = "chunks") <=> (115000 < e /\ e <= 200000)
             /\ (s = "file") <=> (200000 < e /\ e <= 500000)
             /\ (s = "hybrid") <=> (e > 500000)
  /\ (sel.strategy[1] # "none" /\ sel.strategy[2] # "none"
        /\ sel.tokens[1] <= sel.tokens[2])
       => StrategyRank(sel.strategy[1]) <= StrategyRank(sel.strategy[2])

C25_Witness ==
  /\ sel.tokens = <<115000, 115001>>
  /\ sel.strategy = <<"direct", "chunks">>

\* the conversations call r created and the files it uploaded
ConversationsOf(r) ==
  {c \in 1..Len(conc.server.convBy) : conc.server.convBy[c] = r}

FilesOf(r) == {f \in 1..Len(conc.server.fileBy) : conc.server.fileBy[f] = r}

\* C26: calls running concurrently on one SmartRequestHandler do not
\* interfere: under every interleaving the audit log of a call, also the one
\* in its result, holds only steps the call itself logged; its result
\* carries a conversation it created, the answer to its own last message on
\* that conversation and, if any, a file it uploaded; its upload-tracking
\* map holds only its own files; and on every conversation only the call
\* that created it sends, with at most one message unanswered at a time.
C26_CallsIsolated ==
  /\ \A r \in Calls :
       /\ \A k \in 1..Len(conc.steps[r]) : conc.steps[r][k].by = r
       /\ conc.call[r].uploadedFiles \subseteq FilesOf(r)
       /\ conc.call[r].pc = "done" =>
            LET res == conc.call[r].result
            IN  /\ res.set
                /\ \A k \in 1..Len(res.processingSteps) :
                     res.processingSteps[k].by = r
                /\ res.processingSteps = conc.steps[r]
                /\ res.conversationId \in ConversationsOf(r)
                /\ res.answer =
                     AnswerOf(res.conversationId,
                              conc.server.sent[res.conversationId])
                /\ res.fileId # 0 => res.fileId \in FilesOf(r)
                /\ (res.fileId # 0) <=>
                     (conc.call[r].strategy \in {"file", "hybrid"})
  /\ \A c \in 1..Len(conc.server.convBy) :
       /\ conc.server.open[c] \in {0, 1}
       /\ conc.server.continuedBy[c] \subseteq {conc.server.convBy[c]}

\* two calls, one chunked and one hybrid, have finished after running
\* interleaved: the hybrid call created its conversation first
C26_Witness ==
  /\ conc.call[1].pc = "done" /\ conc.call[2].pc = "done"
  /\ conc.call[1].strategy = "chunks" /\ conc.call[2].strategy = "hybrid"
  /\ conc.call[1].result.conversationId = 2
  /\ conc.call[2].result.conversationId = 1
  /\ conc.call[2].result.fileId = 1
  /\ Len(conc.steps[1]) > 3 /\ Len(conc.steps[2]) > 3

\* the terminal events among the first k events the callback received
TerminalEvents(k) ==
  {j \in 1..k : progress.events[j].type \in {"complete", "error"}}

\* C27: when a progress callback is supplied, the events it has received
\* once handleLargeRequest has settled end with exactly one terminal event:
\* of type 'complete' if the request resolved, of type 'error' if it
\* rejected, and no event follows it.
C27_ProgressTerminates ==
  (progress.callback /\ pc \in {"done", "failed"}) =>
    LET n == Len(progress.events)
    IN  /\ n >= 1
        /\ TerminalEvents(n) = {n}
        /\ progress.events[n].type = IF pc = "done" THEN "complete"
                                      ELSE "error"

\* /v1/complete has replied to a request whose session had no mapping
CompleteReplied ==
  route.kind = "complete" /\ ~route.hadMapping /\ route.pc = "replied"

\* the response that ended the polling is a finished one with an answer
FinalIsFinished ==
  /\ route.final.status \in {"finished", "Finished", "done", "completed"}
  /\ route.final.answer # <<>>

\* C28 as stated: POST /v1/complete for a session without a stored mapping
\* and a message under the gate, whose polling met a finished response with
\* a non-empty answer, has issued exactly one createConversation, answers
\* 200 with completion equal to that answer, and has stored the mapping
\* from the session to the new conversation.
C28_CompletionIsAnswer ==
  (CompleteReplied /\ route.finished) =>
    /\ route.creates = 1 /\ route.continues = 0
    /\ FinalIsFinished
    /\ route.reply.status = 200
    /\ route.reply.completion = route.final.answer
    /\ route.stored = NewConversation

\* the text has no think tag and no whitespace at either end
PlainText(text) ==
  /\ \A i \in 1..Len(text) : text[i] \notin {"<think>", "</think>"}
  /\ text # <<>> => ~IsSpace(text[1]) /\ ~IsSpace(text[Len(text)])

\* C28, amended: such a request issues exactly one createConversation and no
\* continueConversation.  If its polling meets a finished response with a
\* non-empty answer, it answers 200 with the completion being that answer
\* cleaned (think blocks removed, whitespace trimmed; the answer itself when
\* there is nothing to clean) and stores the mapping.  If the deadline
\* passes first, it answers 200 with the cleaned last non-empty answer seen
\* (empty if none) and stores the mapping.  If a backend call fails it
\* answers 502.
C28_CompletionIsCleanedAnswer ==
  CompleteReplied =>
    /\ route.creates = 1 /\ route.continues = 0
    /\ route.reply.status \in {200, 502}
    /\ route.finished =>
         /\ FinalIsFinished
         /\ route.polls >= 1
         /\ route.reply.status = 200
         /\ route.reply.completion = cleanAiResponse(route.final.answer)
         /\ PlainText(route.final.answer) =>
              route.reply.completion = route.final.answer
         /\ route.stored = NewConversation
    /\ (~route.finished /\ route.reply.status = 200) =>
         /\ route.polls >= 1
         /\ route.reply.completion = cleanAiResponse(route.last.answer)
         /\ route.stored = NewConversation
    /\ route.reply.status = 502 => route.reply.error # "none"

\* a processing response was skipped, then a finished answer with a think
\* block was returned without the block
C28_Witness ==
  /\ CompleteReplied /\ route.finished
  /\ route.polls >= 2
  /\ route.final.answer = <<"<think>", "q", "</think>", "p">>
  /\ route.reply.status = 200
  /\ route.reply.completion = <<"p">>
  /\ route.stored = NewConversation

\* the texts of the deltas among the events, in order
RECURSIVE DeltaTexts(_)
DeltaTexts(events) ==
  IF events = <<>> THEN <<>>
  ELSE IF Head(events).type = "delta"
         THEN <<Head(events).text>> \o DeltaTexts(Tail(events))
         ELSE DeltaTexts(Tail(events))

\* the positions of the events of one type
EventsOfType(t) ==
  {i \in 1..Len(route.events) : route.events[i].type = t}

\* what the stream holds at any time: deltas that add up to the text sent
\* when the answers extended one another, and the final answer when the
\* polling met one; never two done markers or a done marker beside an error;
\* once the stream has ended, a done marker as the last event if no error
\* was reported
StreamShape ==
  route.kind = "stream" =>
    /\ route.extending => Concat(DeltaTexts(route.events)) = route.sent
    /\ route.finished => route.sent = route.final.answer
    /\ Cardinality(EventsOfType("done")) <= 1
    /\ EventsOfType("error") # {} => EventsOfType("done") = {}
    /\ route.pc = "replied" =>
         /\ route.ended
         /\ EventsOfType("error") = {} =>
              EventsOfType("done") = {Len(route.events)}
         /\ \A i \in 1..(Len(route.events) - 1) :
              route.events[i].type = "delta"

\* a poll of the stream route that got a response: one delta with the part
\* of the answer beyond the length already sent if the answer is non-empty
\* and differs from the text sent, no delta otherwise
StreamPollEmits ==
  (/\ route.kind = "stream"
   /\ route'.polls = route.polls + 1
   /\ route'.events = <<>> \/ route'.events[Len(route'.events)].type # "error")
    => LET ans == route'.got.answer
       IN  DeltaTexts(route'.events) =
             IF ans # <<>> /\ ans # route.sent
               THEN Append(DeltaTexts(route.events),
                           SubSeq(ans, Len(route.sent) + 1, Len(ans)))
               ELSE DeltaTexts(route.events)

BackoffSchedule(k) ==
  CASE k = 1 -> 1000 [] k = 2 -> 2000 [] k = 3 -> 4000 [] k = 4 -> 8000
    [] OTHER -> 10000

\* C30: the wait after the k-th failed upload attempt, k < maxRetries, is
\* min(1000 * 2^(k-1), 10000) ms: 1000, 2000, 4000, 8000, 10000, 10000, ...;
\* every failed attempt but the final one is followed by its wait before
\* the next attempt, the final one by none; and the error raised on
\* exhaustion carries the error of the last attempt.
C30_BackoffSchedule ==
  /\ \A k \in 1..Len(svc.waits) :
       /\ svc.waits[k] = BackoffSchedule(k)
       /\ k < svc.maxRetries
  /\ svc.pc = "transport" => Len(svc.waits) = svc.failed
  /\ svc.pc = "backoff" =>
       (Len(svc.waits) = svc.failed - 1 /\ svc.failed < svc.maxRetries)
  /\ (svc.pc = "failed" /\ svc.tempWritten) =>
       /\ svc.failed = svc.maxRetries
       /\ Len(svc.errs) = svc.maxRetries
       /\ Len(svc.waits) = IF svc.maxRetries = 0 THEN 0
                           ELSE svc.maxRetries - 1
       /\ svc.error.cause = IF svc.errs = <<>> THEN "null"
                            ELSE svc.errs[Len(svc.errs)]

\* six attempts failed, the last with another error than the one before:
\* the waits reached the cap and the error carries the last one
C30_Witness ==
  /\ svc.pc = "failed"
  /\ svc.maxRetries = 6
  /\ svc.waits = <<1000, 2000, 4000, 8000, 10000>>
  /\ svc.errs[5] = "ECONNRESET" /\ svc.errs[6] = "HTTP 500"
  /\ svc.error.cause = "HTTP 500"

(***************************************************************************)
(* C31.  Prefix and suffix literals on the segments of splitText.          *)
(***************************************************************************)
\* the content begins with the prefix literal and ends with the suffix
\* literal, and the two do not share characters
HasAffixes(content, options) ==
  /\ Len(content) >= Len(options.chunkPrefix) + Len(options.chunkSuffix)
  /\ SubSeq(content, 1, Len(options.chunkPrefix)) = options.chunkPrefix
  /\ SubSeq(content, Len(content) - Len(options.chunkSuffix) + 1,
            Len(content)) = options.chunkSuffix

\* C31: with a prefix and/or suffix configured, every segment returned by
\* splitText has content prefix + body + suffix; the single segment
\* returned when the whole text fits the ceiling is prefix + text + suffix.
C31_AffixesOnEverySegment ==
  seg.pc = "done" =>
    /\ \A k \in 1..Len(seg.chunks) :
         HasAffixes(seg.chunks[k].content, seg.options)
    /\ (SegmenterFits /\ Len(seg.chunks) = 1) =>
         seg.chunks[1].content = addPrefixSuffix(seg.text, seg.options)

(***************************************************************************)
(* C32.  Hybrid strategy when nothing is left after the split point.       *)
(***************************************************************************)
\* message.substring(splitPoint) is the empty string
RemainderEmpty == msg.len > 0 /\ splitPoint(msg) >= msg.len

\* a hybrid request with an empty remainder has returned
HybridFileOnlyDone ==
  pc = "done" /\ strategy = "hybrid" /\ RemainderEmpty

\* the backend calls of such a request: uploads, then one createConversation
\* referencing the uploaded file, then its poll, whose answer is returned
HybridFileOnlyCalls ==
  /\ Len(Uploads) >= 1
  /\ \A i \in 1..Len(Uploads) : IsUpload(trace[i])
  /\ Len(trace) = Len(Uploads) + 2
  /\ Exchange(Len(Uploads) + 1)
  /\ Len(Sends) = 1
  /\ Sends[1].op = "create"
  /\ Sends[1].files = {trace[Len(Uploads)].fileId}
  /\ result.answer = trace[Len(trace)].answer
  /\ result.fileId = trace[Len(Uploads)].fileId
  /\ result.strategy = "hybrid"

\* C32: a hybrid request whose remainder is empty sends the whole message
\* through the file path, issues no continueConversation and no
\* consolidation, returns the file conversation's answer and reports
\* strategy hybrid together with its segment count.
C32_HybridEmptyRemainder ==
  HybridFileOnlyDone =>
    /\ HybridFileOnlyCalls
    /\ result.chunksProcessed # Undefined

\* C32, amended: a hybrid request whose remainder is empty or whitespace
\* only sends the whole message through the file path, issues no
\* continueConversation and no consolidation, returns the file
\* conversation's answer and file id and reports strategy hybrid; the
\* result carries no segment count (chunksProcessed stays undefined).
C32_HybridFileOnly ==
  (pc = "done" /\ strategy = "hybrid" /\ remainingBlank(msg)) =>
    /\ HybridFileOnlyCalls
    /\ result.chunksProcessed = Undefined

C32_Witness ==
  /\ HybridFileOnlyDone
  /\ optStrategy = "hybrid"
  /\ msg.tokens <= ChunkLimit
  /\ result.strategy = "hybrid"
  /\ result.answer # ""
  /\ Len(Sends) = 1

(***************************************************************************)
(* C33.  Aggregate token estimates of the result.                          *)
(***************************************************************************)
\* the answers the polls of the request returned, in order
PolledAnswers ==
  LET polls == SelectSeq(trace, LAMBDA e : IsPoll(e) /\ e.ok)
  IN  [i \in 1..Len(polls) |-> AnswerTokens(polls[i].answer)]

\* C33: the result of a chunked or hybrid request has totalResponseTokens
\* equal to the sum of the estimates of every answer a poll of the request
\* returned (each segment's and the consolidation's, and for hybrid the
\* file conversation's), and totalInputTokens equal to the estimate of the
\* whole message.
C33_AggregateTokens ==
  (pc = "done" /\ strategy \in {"chunks", "hybrid"}) =>
    /\ result.totalResponseTokens = SumSeq(PolledAnswers)
    /\ result.totalInputTokens = msg.tokens

(***************************************************************************)
(* C34.  Creation of the conversation of a session.                        *)
(***************************************************************************)
\* C34: for a session id without stored mapping, whatever the interleaving
\* of its concurrent requests, at most one createConversation call is made
\* and the session is only ever mapped to one conversation id.
C34_SingleCreation ==
  /\ sess.creates <= 1
  /\ Cardinality(sess.mapped) <= 1

(***************************************************************************)
(* C35.  The message of a small-message request reaches the backend.       *)
(***************************************************************************)
\* C35: every small-message request that gets as far as pollAnswer has
\* sent its message exactly once, by createConversation or
\* continueConversation, and polls the request id that call returned, also
\* when it read no mapping first and a mapping inside the lock.
C35_MessageSentOnce ==
  \A r \in Requests :
    sess.req[r].pc \in {"poll", "done"} =>
      /\ sess.req[r].sends = 1
      /\ sess.req[r].request_id = SessionRequestId(r)
      /\ sess.req[r].pc = "done" => sess.req[r].polled = SessionRequestId(r)

(***************************************************************************)
(* C36.  Termination and call budgets of handleLargeRequest.               *)
(***************************************************************************)
\* handleLargeRequest has resolved with a result or rejected with an error
RequestEnded ==
  \/ pc = "done" /\ result.set /\ error = NoError
  \/ pc = "failed" /\ ~result.set /\ error # NoError

\* the create/continue calls a request may make: one per segment, one
\* consolidation and, for hybrid, the create of the file conversation
SendBudget ==
  Len(loc.chunks) + 1 + (IF strategy = "hybrid" THEN 1 ELSE 0)

CallBudgets ==
  /\ poll.calls <= pollBudget(poll.isFile)
  /\ upl.calls <= upl.maxRetries
  /\ Len(Sends) <= SendBudget

\* C36: whatever the backend answers, handleLargeRequest ends with a result
\* or an error; every poll makes at most its attempt budget of getAnswer
\* calls, every upload at most maxRetries transport calls, and the request
\* at most segment count + 1 (+ 1 for hybrid) create/continue calls.
C36_TerminatesWithinBudgets == [](CallBudgets) /\ <>(RequestEnded)

C36_Witness ==
  /\ RequestEnded
  /\ strategy = "hybrid"
  /\ Len(Sends) = SendBudget
  /\ Len(loc.chunks) >= 2
  /\ upl.calls = upl.maxRetries
  /\ poll.calls = pollBudget(poll.isFile)

(***************************************************************************)
(* C37.  Character-mode segmentation.                                      *)
(***************************************************************************)
\* splitText went through splitByCharacters
CharacterMode ==
  /\ seg.pc = "done"
  /\ seg.options.splitStrategy = "character"
  /\ ~SegmenterTextBlank
  /\ smartEstimateTokens(seg.text) > seg.options.maxTokensPerChunk

\* C37: in character mode with maxTokensPerChunk >= 1 the windows tile the
\* text: the first starts at 0, each next one starts where the previous
\* ended, the last ends at the text length, every window holds at least one
\* and at most maxTokensPerChunk * 4 characters, every segment body is the
\* text of its window, and the bodies concatenated are the text.
C37_CharacterWindows ==
  CharacterMode =>
    LET n == Len(seg.chunks)
        maxCharsPerChunk == seg.options.maxTokensPerChunk * 4
    IN  /\ n >= 1
        /\ seg.chunks[1].startPos = 0
        /\ seg.chunks[n].endPos = Len(seg.text)
        /\ \A k \in 1..n :
             /\ seg.chunks[k].endPos > seg.chunks[k].startPos
             /\ seg.chunks[k].endPos - seg.chunks[k].startPos
                  <= maxCharsPerChunk
             /\ Body(k) = SubSeq(seg.text, seg.chunks[k].startPos + 1,
                                 seg.chunks[k].endPos)
             /\ seg.chunks[k].content =
                  addPrefixSuffix(Body(k), seg.options)
        /\ \A k \in 1..(n - 1) :
             seg.chunks[k + 1].startPos = seg.chunks[k].endPos
        /\ Concat([k \in 1..n |-> Body(k)]) = seg.text

\* a window was cut back to a space, which opens the next segment
C37_Witness ==
  /\ CharacterMode
  /\ Len(seg.chunks) >= 2
  /\ seg.options.chunkPrefix # <<>>
  /\ seg.chunks[1].endPos < seg.options.maxTokensPerChunk * 4
  /\ seg.text[seg.chunks[1].endPos + 1] = " "
  /\ Body(2)[1] = " "

(***************************************************************************)
(* C38.  A closed ProgressStreamManager stays closed and silent.           *)
(***************************************************************************)
\* C38: once the manager is closed, no call of sendProgress, sendError,
\* sendComplete, sendDelta, sendDone or close writes to the stream, and
\* closed does not become false again.
C38_ClosedIsAbsorbing ==
  [][psm.closed => (psm'.closed /\ psm'.stream = psm.stream)]_vars

\* calls of several kinds were made on a manager closed by sendDone
C38_Witness ==
  /\ psm.closed
  /\ psm.closedBy = "sendDone"
  /\ psm.lateCalls >= 2
  /\ psm.passed > Len(psm.accepted)

(***************************************************************************)
(* C39.  Order of the progress updates on the stream.                      *)
(***************************************************************************)
\* the updates of the progress lines written, in stream order
WrittenUpdates ==
  LET lines == SelectSeq(psm.stream, LAMBDA l : l.kind = "progress")
  IN  [i \in 1..Len(lines) |-> lines[i].update]

\* C39: the progress updates on the stream are updates that sendProgress
\* accepted, in the order in which they were passed to it, none of them
\* twice, whatever calls are made and wherever a write fails.
C39_InOrderAtMostOnce ==
  /\ \A i \in 1..Len(WrittenUpdates) :
       \E j \in 1..Len(psm.accepted) : psm.accepted[j] = WrittenUpdates[i]
  /\ \A i, j \in 1..Len(WrittenUpdates) :
       i < j => WrittenUpdates[i].seq < WrittenUpdates[j].seq

\* a flush of two buffered updates failed at the second write
C39_Witness ==
  /\ psm.writeFailed
  /\ psm.closedBy = "write"
  /\ Len(psm.messageBuffer) = 2
  /\ Len(WrittenUpdates) = 2
  /\ WrittenUpdates[2] = psm.messageBuffer[1]
  /\ Len(psm.accepted) = 3

(***************************************************************************)
(* C40.  Buffered updates when the stream is finished.                     *)
(***************************************************************************)
\* C40: when no write has failed, every update sendProgress accepted while
\* the manager was open is on the stream once the manager is closed,
\* whether close() or sendDone() closed it.
C40_NothingLost ==
  (psm.closed /\ ~psm.writeFailed) => WrittenUpdates = psm.accepted

====
